---------------------------- MODULE Spec2Model ----------------------------
(***************************************************************************)
(* A model of powerpack's disk cache (crates/cache/src/lib.rs) and of the  *)
(* detached task runner it uses (crates/detach/src/lib.rs).                *)
(*                                                                         *)
(* Every call of Cache::load is made by its own short-lived process (an    *)
(* Alfred workflow run); call i may fork one child, the refresh of call i. *)
(* The only state the processes share is the file system: per key one      *)
(* directory (the unit of locking), the entry file data.json and the       *)
(* staging file data.tmp.                                                  *)
(***************************************************************************)
EXTENDS Integers, Sequences, FiniteSets, TLC

(***************************************************************************)
(* Bounds of the model.                                                    *)
(***************************************************************************)
MaxCalls == 2
MaxTime == 2
\* the largest poll_interval and poll_duration a Cache is built with, in ticks
MaxInterval == 2
MaxDuration == 2

Calls == 1..MaxCalls
\* key arguments of load, as the components Path::components yields for
\* them: two plain names, and a second spelling of the first
Keys == {<<"k1">>, <<"k2">>, <<".", "k1">>}
\* the subdirectories of the cache directory that these keys name
Subdirs == {"k1", "k2"}
\* checksum arguments of load: a plain one, and one made of a double quote
\* and a backslash, the two printable characters JSON has to escape
Checksums == {<<"a">>, <<"\"", "\\">>}
\* what the compute of call i returns when it succeeds: a value that tells
\* the calls apart, every second one with a character JSON has to escape
ComputeValue(i) == IF i % 2 = 1 THEN <<"x">> ELSE <<"\"", "y">>

(***************************************************************************)
(* The entry codec: what serde_json writes for Data and what from_slice    *)
(* accepts.  A file is a sequence of the pieces the serializer writes one  *)
(* after the other; the characters of a string are pieces of their own.    *)
(***************************************************************************)
TokOpen == "{\"modified\":{\"secs_since_epoch\":"
TokNanos == ",\"nanos_since_epoch\":"
TokChecksum == "},\"checksum\":"
TokData == ",\"data\":"
TokClose == "}"
Quote == "\""
Backslash == "\\"

DigitChar == <<"0", "1", "2", "3", "4", "5", "6", "7", "8", "9">>
Digits == {DigitChar[d] : d \in 1..10}
DigitVal(ch) == (CHOOSE d \in 1..10 : DigitChar[d] = ch) - 1
PlainChars == {"a", "b", "o", "x", "y"}

\* u64 / u32 written in decimal
RECURSIVE SerializeInt(_)
SerializeInt(n) ==
    IF n < 10 THEN <<DigitChar[n + 1]>>
    ELSE SerializeInt(n \div 10) \o <<DigitChar[(n % 10) + 1]>>

\* serde_json's format_escaped_str_contents: '"' and '\' get a backslash
RECURSIVE EscapeStr(_)
EscapeStr(s) ==
    IF s = <<>> THEN <<>>
    ELSE (IF Head(s) \in {Quote, Backslash} THEN <<Backslash, Head(s)>>
          ELSE <<Head(s)>>) \o EscapeStr(Tail(s))

SerializeStr(s) == <<Quote>> \o EscapeStr(s) \o <<Quote>>

\* json::to_writer(&file, &Data {checksum, modified, data}): the fields in
\* the order of the struct, SystemTime as {secs_since_epoch, nanos_since_epoch}
\* The serializer hands the file to write(2) in many small pieces; the model
\* groups them by field, so a file being written is seen after each field.
Pieces(rec) ==
    << <<TokOpen>> \o SerializeInt(rec.modified) \o <<TokNanos>> \o SerializeInt(0),
       <<TokChecksum>> \o SerializeStr(rec.checksum),
       <<TokData>> \o SerializeStr(rec.data) \o <<TokClose>> >>

Serialize(rec) == Pieces(rec)[1] \o Pieces(rec)[2] \o Pieces(rec)[3]

At(s, i) == IF i \in 1..Len(s) THEN s[i] ELSE ""

RECURSIVE ScanInt(_, _, _, _)
ScanInt(s, i, acc, any) ==
    IF At(s, i) \in Digits
    THEN ScanInt(s, i + 1, acc * 10 + DigitVal(s[i]), TRUE)
    ELSE [ok |-> any, val |-> acc, next |-> i]

\* the body of a JSON string up to its closing quote; escaped records
\* whether an escape sequence had to be decoded
RECURSIVE ScanStr(_, _, _, _)
ScanStr(s, i, acc, esc) ==
    CASE At(s, i) = Quote -> [ok |-> TRUE, val |-> acc, escaped |-> esc, next |-> i + 1]
      [] At(s, i) = Backslash ->
            IF At(s, i + 1) \in {Quote, Backslash}
            THEN ScanStr(s, i + 2, Append(acc, s[i + 1]), TRUE)
            ELSE [ok |-> FALSE, val |-> <<>>, escaped |-> esc, next |-> 0]
      [] At(s, i) \in PlainChars -> ScanStr(s, i + 1, Append(acc, s[i]), esc)
      [] OTHER -> [ok |-> FALSE, val |-> <<>>, escaped |-> esc, next |-> 0]

ParseStr(s, i) ==
    IF At(s, i) = Quote THEN ScanStr(s, i + 1, <<>>, FALSE)
    ELSE [ok |-> FALSE, val |-> <<>>, escaped |-> FALSE, next |-> 0]

\* checksum: &'a str is deserialized by borrowing from the input, which
\* serde_json can do only for a string without escape sequences
BorrowedStr(p) == p.ok /\ ~p.escaped
\* data: String is deserialized into an owned string
OwnedStr(p) == p.ok

NoData == [ok |-> FALSE, modified |-> 0, checksum |-> <<>>, data |-> <<>>]

\* json::from_slice::<Data>(bytes)
Deserialize(bytes) ==
    LET secs == ScanInt(bytes, 2, 0, FALSE)
        nanos == ScanInt(bytes, secs.next + 1, 0, FALSE)
        sum == ParseStr(bytes, nanos.next + 1)
        dat == ParseStr(bytes, sum.next + 1)
    IN  IF /\ At(bytes, 1) = TokOpen
           /\ secs.ok
           /\ At(bytes, secs.next) = TokNanos
           /\ nanos.ok
           /\ At(bytes, nanos.next) = TokChecksum
           /\ BorrowedStr(sum)
           /\ At(bytes, sum.next) = TokData
           /\ OwnedStr(dat)
           /\ At(bytes, dat.next) = TokClose
           /\ dat.next = Len(bytes)
        THEN [ok |-> TRUE, modified |-> secs.val, checksum |-> sum.val, data |-> dat.val]
        ELSE NoData

(***************************************************************************)
(* State.                                                                  *)
(***************************************************************************)
VARIABLES
    now,     \* the clock (SystemTime::now, Instant::now), in ticks
    cfg,     \* the Cache built by Builder::build: ttl, poll_interval, poll_duration
    dir,     \* dir[k]: the key's subdirectory <directory>/<k> exists
    fs,      \* fs[k][name]: the file <directory>/<k>/<name>
    lock,    \* lock[k]: the call whose refresh holds the lock of <directory>/<k>, or 0
    load,    \* load[i]: the process executing call i of Cache::load
    child,   \* child[i]: the detached process forked by call i
    dir0,    \* dir as it was at the start (history)
    fs0,     \* fs as it was at the start (history)
    env,     \* the environment of the process: Alfred's variables, the home directory
    builder, \* the cache Builder under construction
    built,   \* what Builder::build returned, once it was called
    iter,    \* the items built so far for the next call of Output::items, the last one under construction
    out,     \* the Output
    json,    \* what Output::write wrote, once it was called
    std      \* std[i]: the standard streams and the panic hook of the child of call i

\* the state of the cache, and the state of the program around it
cache == <<now, cfg, dir, fs, lock, load, child, dir0, fs0>>
host == <<env, builder, built>>

script == <<iter, out, json>>

vars == <<cache, host, script, std>>

\* directory.join("data.json")
EntryPath == "data.json"
\* (a bug: the staging file is the entry file itself)
TmpPath_Entry == "data.json"
\* path.with_extension("tmp")
TmpPath == "data.tmp"
Names == {"data.json", "data.tmp"}

NoFile == [exists |-> FALSE, bytes |-> <<>>]
File(bytes) == [exists |-> TRUE, bytes |-> bytes]

\* the components of a relative path with the "." components left out, as
\* Path::components and the path resolution of the file system do
RECURSIVE Resolve(_)
Resolve(path) ==
    IF path = <<>> THEN <<>>
    ELSE IF Head(path) = "." THEN Resolve(Tail(path))
    ELSE <<Head(path)>> \o Resolve(Tail(path))

\* self.directory.join(key): the subdirectory the key names
Subdir(key) == Resolve(key)[1]

\* let directory = self.directory.join(key), in call i
KeyOf(i) == Subdir(load[i].key)

Entry(k) == fs[k][EntryPath]
Tmp(k) == fs[k][TmpPath]

Res(kind, data) == [kind |-> kind, data |-> data]
NoRes == Res("none", <<>>)

\* an entry written by an earlier run at time 0, the same file cut short, and
\* an entry whose modified time is ahead of the clock at the start
OldRec == [modified |-> 0, checksum |-> <<"a">>, data |-> <<"o">>]
Truncated == Pieces(OldRec)[1] \o Pieces(OldRec)[2]
FutureRec == [modified |-> 1, checksum |-> <<"a">>, data |-> <<"o">>]

\* a key's subdirectory at the start: absent; present and empty; holding an
\* entry; holding a truncated entry; holding an entry from the future
InitKey == {
    [dir |-> FALSE, entry |-> NoFile],
    [dir |-> TRUE, entry |-> NoFile],
    [dir |-> TRUE, entry |-> File(Serialize(OldRec))],
    [dir |-> TRUE, entry |-> File(Truncated)],
    [dir |-> TRUE, entry |-> File(Serialize(FutureRec))] }

\* a key nothing was ever stored for
UnusedKey == [dir |-> FALSE, entry |-> NoFile]

\* Builder::build with ttl, poll_interval and poll_duration set, in ticks
DefaultCfg == [ttl |-> 1, poll_interval |-> 1, poll_duration |-> 2]

(***************************************************************************)
(* The environment (src/env.rs) and Builder::build.  Durations are in      *)
(* milliseconds here; a path is the sequence of its components.            *)
(***************************************************************************)
None == [some |-> FALSE]
Some(v) == [some |-> TRUE, val |-> v]

\* a variable of the environment: not set, set to bytes that are not valid
\* Unicode, or set to a string, which may be empty
Unset == [kind |-> "unset", val |-> ""]
NotUnicode == [kind |-> "bytes", val |-> ""]
Str(v) == [kind |-> "str", val |-> v]
EnvNames == {"alfred_workflow_cache", "alfred_workflow_bundleid"}
EnvValues == {Unset, NotUnicode, Str(""), Str("e")}

\* std::env::var(key)
StdVar(e, key) ==
    CASE e.vars[key].kind = "unset" -> [ok |-> FALSE, val |-> "", err |-> "NotPresent"]
      [] e.vars[key].kind = "bytes" -> [ok |-> FALSE, val |-> "", err |-> "NotUnicode"]
      [] e.vars[key].kind = "str" -> [ok |-> TRUE, val |-> e.vars[key].val, err |-> ""]

\* Result::ok
OkOf(r) == IF r.ok THEN Some(r.val) ELSE None

\* (a bug: the empty string is kept)
Var_KeepEmpty(e, key) == OkOf(StdVar(e, key))

\* env::var(key).ok().filter(|s| !s.is_empty())
Var(e, key) ==
    LET o == OkOf(StdVar(e, key)) IN IF o.some /\ o.val # "" THEN o ELSE None

\* PathBuf::from(s)
PathFrom(str) == <<str>>
\* path.join(name), for a relative name
Join(path, name) == path \o <<name>>

\* var("alfred_workflow_cache").map(PathBuf::from)
WorkflowCache(e) ==
    LET o == Var(e, "alfred_workflow_cache") IN IF o.some THEN Some(PathFrom(o.val)) ELSE None

\* var("alfred_workflow_bundleid")
WorkflowBundleId(e) == Var(e, "alfred_workflow_bundleid")

\* home::home_dir()
HomeDir(e) == e.home

\* (a bug: builder.bundle_id.or(env::workflow_bundle_id()))
Or_Second(a, b) == IF b.some THEN b ELSE a

\* Option::or
Or(a, b) == IF a.some THEN a ELSE b

\* (a bug: the value set on the builder is dropped)
UnwrapOr_Default(o, default) == default

\* Option::unwrap_or_else
UnwrapOr(o, default) == IF o.some THEN o.val ELSE default

AlfredData == "Library/Caches/com.runningwithcrayons.Alfred/Workflow Data"
DefaultTtl == 30000
DefaultPollInterval == 100
DefaultPollDuration == 1000

Ok(v) == [ok |-> TRUE, val |-> v, err |-> ""]
Err(msg) == [ok |-> FALSE, val |-> <<>>, err |-> msg]

\* the derived default: <home>/Library/Caches/../Workflow Data/<bundle id>
DerivedRoot(b, e) ==
    LET bundle_id == Or(WorkflowBundleId(e), b.bundle_id) IN
    IF ~bundle_id.some THEN Err("no bundle id set")
    ELSE IF ~HomeDir(e).some THEN Err("failed to find current user's home directory")
    ELSE Ok(Join(Join(HomeDir(e).val, AlfredData), bundle_id.val))

\* (a bug: the directory of the host environment wins over the override)
CacheRoot_HostFirst(b, e) ==
    IF WorkflowCache(e).some THEN Ok(WorkflowCache(e).val)
    ELSE IF b.directory.some THEN Ok(b.directory.val)
    ELSE DerivedRoot(b, e)

\* (a bug: a bundle id is asked for whatever the directory comes from)
CacheRoot_NeedsBundle(b, e) ==
    IF ~Or(WorkflowBundleId(e), b.bundle_id).some THEN Err("no bundle id set")
    ELSE IF b.directory.some THEN Ok(b.directory.val)
    ELSE IF WorkflowCache(e).some THEN Ok(WorkflowCache(e).val)
    ELSE DerivedRoot(b, e)

\* let directory = match directory { .. }
CacheRoot(b, e) ==
    IF b.directory.some THEN Ok(b.directory.val)
    ELSE IF WorkflowCache(e).some THEN Ok(WorkflowCache(e).val)
    ELSE DerivedRoot(b, e)

NoBuild == [done |-> FALSE, ok |-> FALSE, err |-> "", directory |-> <<>>,
            ttl |-> 0, poll_interval |-> 0, poll_duration |-> 0]

\* Builder::build
BuildResult(b, e) ==
    LET root == CacheRoot(b, e) IN
    IF ~root.ok THEN [NoBuild EXCEPT !.done = TRUE, !.err = root.err]
    ELSE [done |-> TRUE, ok |-> TRUE, err |-> "", directory |-> root.val,
          ttl |-> UnwrapOr(b.ttl, DefaultTtl),
          poll_interval |-> UnwrapOr(b.poll_interval, DefaultPollInterval),
          poll_duration |-> UnwrapOr(b.poll_duration, DefaultPollDuration)]

\* Cache::builder()
NewBuilder ==
    [directory |-> None, bundle_id |-> None, ttl |-> None,
     poll_interval |-> None, poll_duration |-> None]

\* an environment in which nothing is set
NoEnv == [vars |-> [n \in EnvNames |-> Unset], home |-> None]

(***************************************************************************)
(* The script filter output: Item, Output and their serialization by       *)
(* serde_json. A JSON value is a string, a boolean, a number, an array or  *)
(* an object, whose members are <<name, value>> pairs in the order they    *)
(* are written.                                                            *)
(***************************************************************************)
MaxItems == 2
\* the number of different builder methods called on one item
MaxSets == 2

JString(s) == [string |-> s]
JBool(b) == [bool |-> b]
JArray(elems) == [elems |-> elems]
JObject(members) == [members |-> members]

\* Duration::as_secs_f32 and serialize_f32: the seconds as a decimal number
\* (d is in milliseconds)
DurationAsSecs(d) == [whole |-> d \div 1000, millis |-> d % 1000]

\* #[serde(skip_serializing_if = "Option::is_none")], with an optional
\* rename, on an Option<String> and on an Option<bool>
StringField(name, opt) ==
    IF opt.some THEN << <<name, JString(opt.val)>> >> ELSE <<>>
BoolField(name, opt) ==
    IF opt.some THEN << <<name, JBool(opt.val)>> >> ELSE <<>>

KindNames == [Default |-> "default", File |-> "file", FileSkipCheck |-> "file:skipcheck"]
Kinds == DOMAIN KindNames

\* (a bug: the default kind is written like any other)
IsDefault_Never(kind) == FALSE
\* is_default(&kind), with Kind::default() = Kind::Default
IsDefault(kind) == kind = "Default"

\* Icon::with_image, Icon::with_file_icon, Icon::with_type
WithImage(path) == [inner |-> "Image", path |-> path]
WithFileIcon(path) == [inner |-> "FileIcon", path |-> path]
WithType(uti) == [inner |-> "FileType", path |-> uti]

\* impl Serialize for Icon
SerializeIcon(icon) ==
    JObject((IF icon.inner = "Image" THEN <<>>
             ELSE IF icon.inner = "FileIcon" THEN << <<"type", JString("fileicon")>> >>
             ELSE << <<"type", JString("filetype")>> >>)
            \o << <<"path", JString(icon.path)>> >>)

\* skip_serializing_if = "Option::is_none" on an Option<Icon>
IconField(name, opt) ==
    IF opt.some THEN << <<name, SerializeIcon(opt.val)>> >> ELSE <<>>

\* Text, derived Serialize
DefaultText == [copy |-> None, large_type |-> None]
SerializeText(text) ==
    JObject(StringField("copy", text.copy) \o StringField("largetype", text.large_type))

\* Data (of a modifier), derived Serialize
DefaultData == [subtitle |-> None, arg |-> None, icon |-> None, valid |-> None]
SerializeData(data) ==
    JObject(StringField("subtitle", data.subtitle)
            \o StringField("arg", data.arg)
            \o IconField("icon", data.icon)
            \o BoolField("valid", data.valid))

\* Key, derived Serialize
ModKeys == {"cmd", "alt"}
\* the orders in which a HashMap<Key, Data> may iterate
KeyOrders ==
    {o \in [1..Cardinality(ModKeys) -> ModKeys] : \A a, b \in DOMAIN o : o[a] = o[b] => a = b}

\* HashMap<Key, Data>, serialized as a map in the iteration order ord
SerializeMods(mods, ord) ==
    LET keys == SelectSeq(ord, LAMBDA k : k \in DOMAIN mods) IN
    JObject([j \in 1..Len(keys) |-> <<keys[j], SerializeData(mods[keys[j]])>>])

\* Item::default(); called is the set of builder methods called on the
\* item (history)
DefaultItem ==
    [title |-> "", subtitle |-> None, uid |-> None, arg |-> None, icon |-> None,
     valid |-> None, matches |-> None, autocomplete |-> None, kind |-> "Default",
     modifiers |-> <<>>, text |-> None, quicklook_url |-> None, called |-> {}]

\* Item, derived Serialize
SerializeItem(item, ord) ==
    JObject(<< <<"title", JString(item.title)>> >>
            \o StringField("subtitle", item.subtitle)
            \o StringField("uid", item.uid)
            \o StringField("arg", item.arg)
            \o IconField("icon", item.icon)
            \o BoolField("valid", item.valid)
            \o StringField("match", item.matches)
            \o StringField("autocomplete", item.autocomplete)
            \o (IF IsDefault(item.kind) THEN <<>>
                ELSE << <<"type", JString(KindNames[item.kind])>> >>)
            \o (IF DOMAIN item.modifiers = {} THEN <<>>
                ELSE << <<"mods", SerializeMods(item.modifiers, ord)>> >>)
            \o (IF item.text.some THEN << <<"text", SerializeText(item.text.val)>> >> ELSE <<>>)
            \o StringField("quicklookurl", item.quicklook_url))

\* Output::new()
NewOutput == [rerun |-> None, items |-> <<>>]

\* Output, derived Serialize; ords[j] is the iteration order of the
\* modifiers of item j
SerializeOutput(o, ords) ==
    JObject((IF o.rerun.some THEN << <<"rerun", DurationAsSecs(o.rerun.val)>> >> ELSE <<>>)
            \o << <<"items", JArray([j \in 1..Len(o.items) |->
                                        SerializeItem(o.items[j], ords[j])])>> >>)

\* no item is being built, the output is new and nothing is written
InitOutput ==
    /\ iter = <<>>
    /\ out = NewOutput
    /\ json = None

\* the program around the cache while the cache is in use: not modelled further
InitHost ==
    /\ InitOutput
    /\ env = NoEnv
    /\ builder = NewBuilder
    /\ built = NoBuild

InitLoad ==
    [pc |-> "idle", key |-> <<"k1">>, checksum |-> <<>>, curr |-> NoData, seen |-> "none",
     aged |-> FALSE, age |-> 0, start |-> 0, wake |-> 0, slept |-> 0,
     spawns |-> 0, pending |-> FALSE, there |-> FALSE, result |-> NoRes]

InitChild ==
    [pc |-> "none", data |-> <<>>, modified |-> 0, off |-> 0,
     outcome |-> "none", computes |-> 0, writes |-> 0, renames |-> 0]

\* a process starts with its standard streams open and the default panic hook
InitStd == [closed |-> <<>>, hook |-> FALSE]

InitProcs ==
    /\ InitHost
    /\ std = [i \in Calls |-> InitStd]
    /\ now = 0
    /\ lock = [k \in Subdirs |-> 0]
    /\ child = [i \in Calls |-> InitChild]

\* the arguments of the calls: call i is load(ks[i], cs[i], f)
InitCalls(ks, cs) ==
    load = [i \in Calls |-> [InitLoad EXCEPT !.key = ks[i], !.checksum = cs[i]]]

\* the cache directory at the start
InitFs(f) ==
    /\ dir = [k \in Subdirs |-> f[k].dir]
    /\ fs = [k \in Subdirs |-> [n \in Names |-> IF n = EntryPath THEN f[k].entry ELSE NoFile]]
    /\ dir0 = dir
    /\ fs0 = fs

\* every call is on key k1, which starts in any of its states
Init ==
    /\ InitProcs
    /\ cfg = DefaultCfg
    /\ \E cs \in [Calls -> Checksums] : InitCalls([i \in Calls |-> <<"k1">>], cs)
    /\ \E f \in InitKey : InitFs([k \in Subdirs |-> IF k = "k1" THEN f ELSE UnusedKey])

(***************************************************************************)
(* Cache::load, in the calling process.                                    *)
(***************************************************************************)
\* (a bug: where there is no entry file the staging file is read in its place)
ReadResult_Staging(k, ioerr) ==
    IF ioerr THEN "Io"
    ELSE IF ~dir[k] \/ ~(Entry(k).exists \/ Tmp(k).exists) THEN "NotFound"
    ELSE IF Entry(k).exists /\ Deserialize(Entry(k).bytes).ok THEN "Good" ELSE "Bad"

\* (a repair: an entry that does not deserialize is taken for a missing one)
ReadResult_Repair(k, ioerr) ==
    IF ioerr THEN "Io"
    ELSE IF ~dir[k] \/ ~Entry(k).exists THEN "NotFound"
    ELSE IF Deserialize(Entry(k).bytes).ok THEN "Good" ELSE "NotFound"

\* fs::read(&path) followed by json::from_slice: the read fails with an
\* error other than NotFound, finds no file, or yields bytes that do or do
\* not deserialize
ReadResult(k, ioerr) ==
    IF ioerr THEN "Io"
    ELSE IF ~dir[k] \/ ~Entry(k).exists THEN "NotFound"
    ELSE IF Deserialize(Entry(k).bytes).ok THEN "Good" ELSE "Bad"

\* (a bug: an entry as old as ttl counts as stale)
NeedsUpdate_Ge(curr, checksum, t, ttl) ==
    curr.checksum # checksum \/ t - curr.modified >= ttl

\* (a bug: the checksum is not compared)
NeedsUpdate_AgeOnly(curr, checksum, t, ttl) == t - curr.modified > ttl

\* curr.checksum != checksum || now.duration_since(curr.modified)? > self.ttl
NeedsUpdate(curr, checksum, t, ttl) ==
    curr.checksum # checksum \/ t - curr.modified > ttl

\* (a bug: a negative age is clamped to zero)
ClockSkew_Clamped(curr, checksum, t) == FALSE

\* duration_since fails when modified is later than now; the right operand
\* of || is evaluated only when the checksums are equal
ClockSkew(curr, checksum, t) ==
    curr.checksum = checksum /\ t < curr.modified

\* (a bug: one more round when the window has just elapsed)
PollContinues_Le(t, start, duration) == t - start <= duration

\* while Instant::now().duration_since(start) < self.poll_duration
PollContinues(t, start, duration) == t - start < duration

\* the call returns r
Return(me, r) == [me EXCEPT !.pc = "done", !.start = 0, !.wake = 0, !.result = r]

\* Err(err) => Err(err.into())
OnIoError(me) == Return(me, Res("Io", <<>>))

\* (a bug: an entry that does not deserialize is taken for one not yet there)
OnBadEntry_Retry(me) == [me EXCEPT !.pc = "loop"]

\* json::from_slice(&data)? on bytes that do not deserialize
OnBadEntry(me) == Return(me, Res("Deserialize", <<>>))

\* (a bug: the failure of the fork is ignored: a stale entry is served and a
\* missing one is polled for)
OnSpawnError_Swallowed(me) ==
    IF me.curr.ok THEN Return(me, Res("Ok", me.curr.data)) ELSE [me EXCEPT !.pc = "loop"]

\* detach::spawn(update_cache)? when fork fails
OnSpawnError(me) == Return(me, Res("Spawn", <<>>))

\* (a bug: spawn returns only once the child has ended)
Forked_Waits(i) == child' = [child EXCEPT ![i].pc = "exit", ![i].outcome = "Contended"]

\* (a bug: no child is forked while another refresh of the key is running)
Forked_Dedup(i) ==
    child' = IF \E j \in Calls \ {i} :
                   KeyOf(j) = KeyOf(i) /\ child[j].pc \notin {"none", "exit", "caller"}
             THEN child
             ELSE [child EXCEPT ![i].pc = "forked"]

\* detach::spawn in the parent when fork succeeds: the child starts at exec_child
Forked(i) == child' = [child EXCEPT ![i].pc = "forked"]

\* fs::read(&path) and what follows it up to the first point where the
\* caller reads the clock: the error arms, the deserialization, and on
\* NotFound the spawn and the start of the poll window
LoadRead(i, ioerr, forkok) ==
    /\ load[i].pc = "idle"
    /\ \A j \in Calls : j < i => load[j].pc # "idle"
    /\ LET k == KeyOf(i)
           seen == ReadResult(k, ioerr)
           me == [load[i] EXCEPT !.seen = seen]
       IN
       CASE seen = "Io" ->
                /\ load' = [load EXCEPT ![i] = OnIoError(me)]
                /\ UNCHANGED child
         [] seen = "NotFound" /\ forkok ->
                /\ load' = [load EXCEPT ![i] =
                       [me EXCEPT !.pc = "loop", !.start = now, !.spawns = 1]]
                /\ Forked(i)
         [] seen = "NotFound" /\ ~forkok ->
                /\ load' = [load EXCEPT ![i] = OnSpawnError(me)]
                /\ UNCHANGED child
         [] seen = "Bad" ->
                /\ load' = [load EXCEPT ![i] = OnBadEntry(me)]
                /\ UNCHANGED child
         [] seen = "Good" ->
                /\ load' = [load EXCEPT ![i] =
                       [me EXCEPT !.pc = "check", !.curr = Deserialize(Entry(k).bytes)]]
                /\ UNCHANGED child
    /\ UNCHANGED <<host, script, std, now, cfg, dir, fs, lock, dir0, fs0>>

\* the staleness test on the entry read, the spawn and the return
LoadCheck(i, forkok) ==
    /\ load[i].pc = "check"
    /\ LET curr == load[i].curr
           \* the age is computed only when the checksums are equal
           me == IF curr.checksum = load[i].checksum
                 THEN [load[i] EXCEPT !.aged = TRUE, !.age = now - curr.modified]
                 ELSE load[i]
       IN
       IF ClockSkew(curr, me.checksum, now)
       THEN /\ load' = [load EXCEPT ![i] = Return(me, Res("ClockSkew", <<>>))]
            /\ UNCHANGED child
       ELSE IF NeedsUpdate(curr, me.checksum, now, cfg.ttl)
       THEN IF forkok
            THEN /\ load' = [load EXCEPT ![i] =
                        Return([me EXCEPT !.spawns = 1], Res("Ok", curr.data))]
                 /\ Forked(i)
            ELSE /\ load' = [load EXCEPT ![i] = OnSpawnError(me)]
                 /\ UNCHANGED child
       ELSE /\ load' = [load EXCEPT ![i] = Return(me, Res("Ok", curr.data))]
            /\ UNCHANGED child
    /\ UNCHANGED <<host, script, std, now, cfg, dir, fs, lock, dir0, fs0>>

\* the loop condition: sleep for poll_interval, or give up with a Timeout
LoadPoll(i) ==
    /\ load[i].pc = "loop"
    /\ IF PollContinues(now, load[i].start, cfg.poll_duration)
       THEN load' = [load EXCEPT ![i].pc = "sleep",
                                 ![i].wake = now + cfg.poll_interval,
                                 ![i].slept = @ + cfg.poll_interval,
                                 ![i].seen = "none", ![i].there = FALSE]
       ELSE \* pending records that the refresh was still running at the Timeout
            load' = [load EXCEPT ![i] =
                Return([load[i] EXCEPT !.seen = "none", !.there = FALSE,
                                       !.pending = child[i].pc \notin {"none", "exit", "caller"}],
                       Res("Timeout", <<>>))]
    /\ UNCHANGED <<host, script, std, now, cfg, dir, fs, lock, child, dir0, fs0>>

\* (a bug: a poll read that finds nothing ends the call with the read's error)
OnPollMiss_Error(me) == Return(me, Res("Io", <<>>))

\* if let Ok(data) = fs::read(&path) fails: the loop goes on, whatever the error
OnPollMiss(me) == [me EXCEPT !.pc = "loop"]

\* thread::sleep has returned: if let Ok(data) = fs::read(&path) { .. }
LoadWake(i, ioerr) ==
    /\ load[i].pc = "sleep"
    /\ now >= load[i].wake
    /\ LET k == KeyOf(i)
           seen == ReadResult(k, ioerr)
           \* there records whether the entry file existed when it was read
           me == [load[i] EXCEPT !.seen = seen, !.there = dir[k] /\ Entry(k).exists]
       IN
       load' = [load EXCEPT ![i] =
           CASE seen \in {"Io", "NotFound"} -> OnPollMiss(me)
             [] seen = "Bad" -> OnBadEntry(me)
             [] seen = "Good" -> Return(me, Res("Ok", Deserialize(Entry(k).bytes).data))]
    /\ UNCHANGED <<host, script, std, now, cfg, dir, fs, lock, child, dir0, fs0>>

(***************************************************************************)
(* update, in the detached child of call i.                                *)
(***************************************************************************)

\* (a bug: the guard is leaked, and the lock outlives the refresh)
Unlock_Leak(i) == UNCHANGED lock

\* the guard of child i, if it holds one, is dropped
Unlock(i) == lock' = [k \in Subdirs |-> IF lock[k] = i THEN 0 ELSE lock[k]]

\* update returns and the child exits: the closure logs the outcome
Exit(i, outcome) ==
    /\ child' = [child EXCEPT ![i].pc = "exit", ![i].outcome = outcome,
                              ![i].data = <<>>, ![i].modified = 0, ![i].off = 0]
    /\ Unlock(i)

\* (a bug: the lock is taken whether or not it is held)
TryLockResult_NoExclusion(k) == IF ~dir[k] THEN "error" ELSE "acquired"

\* fmutex::try_lock(directory)?: the directory is opened and flock'ed without
\* blocking; a directory that does not exist cannot be opened
TryLockResult(k) ==
    IF ~dir[k] THEN "error" ELSE IF lock[k] = 0 THEN "acquired" ELSE "busy"

\* (a bug: Some(_) = .., a guard that is dropped as soon as it is matched)
Guard_Dropped(i) == UNCHANGED lock
\* if let Some(_guard) = ..: the guard lives to the end of the block, and the
\* lock is held as long
Guard(i) == lock' = [lock EXCEPT ![KeyOf(i)] = i]

\* (a bug: the refresh goes on without the lock)
OnBusy_Computes(i) ==
    /\ child' = [child EXCEPT ![i].pc = "compute"]
    /\ UNCHANGED lock
\* try_lock returned None, the lock is held elsewhere: Ok(false), which the
\* closure logs as "another process updated cache"
OnBusy(i) == Exit(i, "Contended")

\* update, called by the closure exec_child runs: the lock
TryLock(i) ==
    /\ child[i].pc = "forked"
    /\ LET r == TryLockResult(KeyOf(i)) IN
       CASE r = "acquired" ->
                /\ Guard(i)
                /\ child' = [child EXCEPT ![i].pc = "compute"]
         [] r = "busy" -> OnBusy(i)
         [] r = "error" -> Exit(i, "LockError")
    /\ UNCHANGED <<host, script, now, cfg, dir, fs, load, dir0, fs0>>

\* (a bug: the failure of the child is handed to the caller as a spawn failure)
OnCloseError_Returned(i) ==
    /\ child[i].pc = "forked"
    /\ Exit(i, "CloseError")
    /\ load' = [load EXCEPT ![i] = OnSpawnError(@)]
    /\ UNCHANGED <<host, script, now, cfg, dir, fs, dir0, fs0>>

\* close_std_fds()? fails in the child: spawn logs the error and calls
\* process::exit(1); the panic hook is not installed and f is not called
OnCloseError(i) ==
    /\ child[i].pc = "forked"
    /\ Exit(i, "CloseError")
    /\ UNCHANGED <<host, script, now, cfg, dir, fs, load, dir0, fs0>>

\* close_std_fds: the streams in the order they are closed
StdFds == <<"stdout", "stderr", "stdin">>

\* (a bug: the closure is run whatever close_std_fds returns)
CloseStdFds_Unchecked(n) == [closed |-> SubSeq(StdFds, 1, n), ok |-> TRUE]
\* close_std_fds, when the first n calls of close succeed: the first
\* failure returns, and the streams after it stay open
CloseStdFds(n) == [closed |-> SubSeq(StdFds, 1, n), ok |-> n = Len(StdFds)]

\* exec_child in the child: close_std_fds()?; panic::set_hook(..); f(), which
\* begins with the lock of update
ExecChild(i, n) ==
    LET r == CloseStdFds(n) IN
    /\ std' = [std EXCEPT ![i] = [closed |-> r.closed, hook |-> r.ok]]
    /\ IF r.ok THEN TryLock(i) ELSE OnCloseError(i)

\* what becomes of a panic once panic_hook has logged it and returned: the
\* build aborts (panic = "abort"), or unwinds (the default) out of spawn and
\* through the frames of the caller, up to main or to a catch_unwind of the caller
PanicModes == {"abort", "unwind", "caught"}

\* f() panics in the child: panic_hook logs "child panicked at .."; then the
\* process aborts, or unwinds to its end (status 101), or is caught by the
\* caller's program, which the child goes on to execute.  The guard of the
\* lock is dropped by the unwinding or with the process.
Panic(i, mode) ==
    /\ child[i].pc = "compute"
    /\ child' = [child EXCEPT
          ![i].pc = IF mode = "caught" THEN "caller" ELSE "exit",
          ![i].outcome = CASE mode = "abort" -> "Aborted"
                           [] mode = "unwind" -> "Unwound"
                           [] mode = "caught" -> "Caught",
          ![i].computes = @ + 1]
    /\ Unlock(i)
    /\ UNCHANGED <<host, script, std, now, cfg, dir, fs, load, dir0, fs0>>

\* the exit status of the child: process::exit(0) after f has returned
\* (update's errors are logged by the closure), process::exit(1) when
\* exec_child fails, 101 from the runtime after an unwound panic, 134 for
\* SIGABRT; -1 while the process has not exited
ExitStatus(c) ==
    CASE c.pc # "exit" -> -1
      [] c.outcome = "CloseError" -> 1
      [] c.outcome = "Unwound" -> 101
      [] c.outcome = "Aborted" -> 134
      [] OTHER -> 0

\* the child wrote the panic to the log (panic_hook)
PanicLogged(c) == c.outcome \in {"Aborted", "Unwound", "Caught"}

\* what the caller's compute can do when it returns
ComputeResults(i) == {Res("Ok", ComputeValue(i)), Res("Err", <<>>)}

\* let data = f()?
Compute(i, r) ==
    /\ child[i].pc = "compute"
    /\ IF r.kind = "Ok"
       THEN /\ child' = [child EXCEPT ![i].pc = "create", ![i].data = r.data,
                                      ![i].computes = @ + 1]
            /\ UNCHANGED lock
       ELSE /\ child' = [child EXCEPT ![i].pc = "exit", ![i].outcome = "ComputeError",
                                      ![i].computes = @ + 1]
            /\ Unlock(i)
    /\ UNCHANGED <<host, script, std, now, cfg, dir, fs, load, dir0, fs0>>

\* fs::create_dir_all(path.parent().unwrap())?; fs::File::create(&tmp)?;
\* let modified = SystemTime::now();
CreateTmp(i, ok) ==
    /\ child[i].pc = "create"
    /\ IF ok
       THEN /\ dir' = [dir EXCEPT ![KeyOf(i)] = TRUE]
            /\ fs' = [fs EXCEPT ![KeyOf(i)][TmpPath] = File(<<>>)]
            /\ child' = [child EXCEPT ![i].pc = "write", ![i].modified = now,
                                      ![i].off = 0, ![i].writes = @ + 1]
            /\ UNCHANGED lock
       ELSE /\ Exit(i, "CreateError")
            /\ UNCHANGED <<dir, fs>>
    /\ UNCHANGED <<host, script, std, now, cfg, load, dir0, fs0>>

\* (a bug: the entry is stamped with the epoch, not with the time of the write)
NewRec_Epoch(i) ==
    [modified |-> 0, checksum |-> load[i].checksum, data |-> child[i].data]

\* (a bug: the record takes the checksum of the next call)
NewRec_Mixed(i) ==
    [modified |-> child[i].modified, checksum |-> load[(i % MaxCalls) + 1].checksum,
     data |-> child[i].data]

\* the record update serializes
NewRec(i) ==
    [modified |-> child[i].modified, checksum |-> load[i].checksum, data |-> child[i].data]

\* (a bug: the error of the write is dropped and update goes on to the rename)
OnWriteError_Ignored(i) ==
    /\ child' = [child EXCEPT ![i].pc = "rename"]
    /\ UNCHANGED lock

\* json::to_writer(..)? fails: update returns the error
OnWriteError(i) == Exit(i, "WriteError")

\* json::to_writer(&file, ..)?: the next piece goes into the staging file
WriteTmp(i, ok) ==
    /\ child[i].pc = "write"
    /\ LET pieces == Pieces(NewRec(i))
           k == KeyOf(i)
       IN
       IF ok
       THEN /\ fs' = [fs EXCEPT ![k][TmpPath] =
                  File(fs[k][TmpPath].bytes \o pieces[child[i].off + 1])]
            /\ child' = [child EXCEPT
                  ![i].pc = IF child[i].off + 1 = Len(pieces) THEN "rename" ELSE "write",
                  ![i].off = @ + 1, ![i].writes = @ + 1]
            /\ UNCHANGED lock
       ELSE /\ OnWriteError(i)
            /\ UNCHANGED fs
    /\ UNCHANGED <<host, script, std, now, cfg, dir, load, dir0, fs0>>

\* (a bug: the new entry is appended to the entry file)
Renamed_Append(k) ==
    [n \in Names |->
        IF n = EntryPath THEN File(fs[k][EntryPath].bytes \o fs[k][TmpPath].bytes)
        ELSE IF n = TmpPath THEN NoFile
        ELSE fs[k][n]]

\* rename(2) of the staging file over the entry file: one atomic step; a
\* rename of a file onto itself changes nothing
Renamed(k) ==
    [n \in Names |->
        IF n = EntryPath THEN fs[k][TmpPath]
        ELSE IF n = TmpPath THEN NoFile
        ELSE fs[k][n]]

\* fs::rename(tmp, path)?; Ok(true)
Rename(i, ok) ==
    /\ child[i].pc = "rename"
    /\ IF ok /\ Tmp(KeyOf(i)).exists
       THEN /\ fs' = [fs EXCEPT ![KeyOf(i)] = Renamed(KeyOf(i))]
            /\ child' = [child EXCEPT ![i].pc = "exit", ![i].outcome = "Updated",
                                      ![i].data = <<>>, ![i].modified = 0, ![i].off = 0,
                                      ![i].writes = @ + 1, ![i].renames = @ + 1]
            /\ Unlock(i)
       ELSE /\ Exit(i, "RenameError")
            /\ UNCHANGED fs
    /\ UNCHANGED <<host, script, std, now, cfg, dir, load, dir0, fs0>>

\* time passes
Tick ==
    /\ now < MaxTime
    /\ now' = now + 1
    /\ UNCHANGED <<host, script, std, cfg, dir, fs, lock, load, child, dir0, fs0>>

Next ==
    \/ \E i \in Calls, ioerr \in BOOLEAN, forkok \in BOOLEAN : LoadRead(i, ioerr, forkok)
    \/ \E i \in Calls, forkok \in BOOLEAN : LoadCheck(i, forkok)
    \/ \E i \in Calls : LoadPoll(i)
    \/ \E i \in Calls, ioerr \in BOOLEAN : LoadWake(i, ioerr)
    \/ \E i \in Calls, n \in 0..Len(StdFds) : ExecChild(i, n)
    \/ \E i \in Calls, mode \in PanicModes : Panic(i, mode)
    \/ \E i \in Calls : \E r \in ComputeResults(i) : Compute(i, r)
    \/ \E i \in Calls, ok \in BOOLEAN : CreateTmp(i, ok)
    \/ \E i \in Calls, ok \in BOOLEAN : WriteTmp(i, ok)
    \/ \E i \in Calls, ok \in BOOLEAN : Rename(i, ok)
    \/ Tick

Spec == Init /\ [][Next]_vars

\* two calls with two distinct keys: call 1 with the key k1, call 2 with any
\* other key, each subdirectory starting in any of its states
InitKeys ==
    /\ InitProcs
    /\ cfg = DefaultCfg
    /\ \E k \in Keys \ {<<"k1">>} :
          InitCalls([i \in Calls |-> IF i = 1 THEN <<"k1">> ELSE k], [i \in Calls |-> <<"a">>])
    /\ \E f \in [Subdirs -> InitKey] : InitFs(f)

SpecKeys == InitKeys /\ [][Next]_vars

(***************************************************************************)
(* Building a Cache: the methods of Builder, called in any order, and      *)
(* build at the end, in an environment chosen at the start.                *)
(***************************************************************************)
BuildDirs == {<<"d">>}
BundleIds == {"b"}
Durations == {0, 7}

Envs ==
    {[vars |-> v, home |-> h] :
        v \in [EnvNames -> EnvValues], h \in {None, Some(<<"home">>)}}

\* Builder::directory
Directory(d) ==
    /\ ~built.done
    /\ builder' = [builder EXCEPT !.directory = Some(d)]
    /\ UNCHANGED <<cache, script, std, env, built>>

\* Builder::bundle_id
BundleId(id) ==
    /\ ~built.done
    /\ builder' = [builder EXCEPT !.bundle_id = Some(id)]
    /\ UNCHANGED <<cache, script, std, env, built>>

\* Builder::poll_interval
PollInterval(d) ==
    /\ ~built.done
    /\ builder' = [builder EXCEPT !.poll_interval = Some(d)]
    /\ UNCHANGED <<cache, script, std, env, built>>

\* Builder::poll_duration
PollDuration(d) ==
    /\ ~built.done
    /\ builder' = [builder EXCEPT !.poll_duration = Some(d)]
    /\ UNCHANGED <<cache, script, std, env, built>>

\* Builder::ttl
Ttl(d) ==
    /\ ~built.done
    /\ builder' = [builder EXCEPT !.ttl = Some(d)]
    /\ UNCHANGED <<cache, script, std, env, built>>

\* Builder::build, which consumes the builder
Build ==
    /\ ~built.done
    /\ built' = BuildResult(builder, env)
    /\ UNCHANGED <<cache, script, std, env, builder>>

NextBuild ==
    \/ \E d \in BuildDirs : Directory(d)
    \/ \E id \in BundleIds : BundleId(id)
    \/ \E d \in Durations : PollInterval(d)
    \/ \E d \in Durations : PollDuration(d)
    \/ \E d \in Durations : Ttl(d)
    \/ Build

\* no call of load is made: the cache directory is empty
InitBuild ==
    /\ InitOutput
    /\ std = [i \in Calls |-> InitStd]
    /\ env \in Envs
    /\ builder = NewBuilder
    /\ built = NoBuild
    /\ now = 0
    /\ cfg = DefaultCfg
    /\ lock = [k \in Subdirs |-> 0]
    /\ child = [i \in Calls |-> InitChild]
    /\ InitCalls([i \in Calls |-> <<"k1">>], [i \in Calls |-> <<"a">>])
    /\ InitFs([k \in Subdirs |-> UnusedKey])

SpecBuild == InitBuild /\ [][NextBuild]_vars

(***************************************************************************)
(* Building and writing an Output: items are built one after the other     *)
(* with the methods of Item, handed to Output::items, and the output is    *)
(* written once at the end.                                                *)
(***************************************************************************)
Titles == {"t"}
Strs == {"s"}
Icons == {WithImage("p"), WithFileIcon("p"), WithType("u")}
RerunDurations == {0, 500}
\* Modifier::new(key), and Modifier::new(key).subtitle(..)
Modifiers ==
    {[key |-> k, data |-> d] :
        k \in ModKeys, d \in {DefaultData, [DefaultData EXCEPT !.subtitle = Some("s")]}}

\* the item under construction
Last == iter[Len(iter)]

\* method may be called on the item under construction
Builds(method) ==
    /\ ~json.some
    /\ Len(iter) > 0
    /\ method \in Last.called \/ Cardinality(Last.called) < MaxSets

\* the builder method returns the item it was given, changed
Returns(method, item) ==
    /\ iter' = [iter EXCEPT ![Len(iter)] = [item EXCEPT !.called = @ \cup {method}]]
    /\ UNCHANGED <<cache, host, std, out, json>>

\* Item::new
ItemNew(title) ==
    /\ ~json.some
    /\ Len(out.items) + Len(iter) < MaxItems
    /\ iter' = Append(iter, [DefaultItem EXCEPT !.title = title])
    /\ UNCHANGED <<cache, host, std, out, json>>

\* Item::subtitle
Subtitle(s) ==
    Builds("subtitle") /\ Returns("subtitle", [Last EXCEPT !.subtitle = Some(s)])

\* Item::uid
Uid(s) ==
    Builds("uid") /\ Returns("uid", [Last EXCEPT !.uid = Some(s)])

\* Item::arg
Arg(s) ==
    Builds("arg") /\ Returns("arg", [Last EXCEPT !.arg = Some(s)])

\* Item::icon
Icon(icon) ==
    Builds("icon") /\ Returns("icon", [Last EXCEPT !.icon = Some(icon)])

\* Item::valid
Valid(b) ==
    Builds("valid") /\ Returns("valid", [Last EXCEPT !.valid = Some(b)])

\* Item::matches
Matches(s) ==
    Builds("matches") /\ Returns("matches", [Last EXCEPT !.matches = Some(s)])

\* Item::autocomplete
Autocomplete(s) ==
    Builds("autocomplete") /\ Returns("autocomplete", [Last EXCEPT !.autocomplete = Some(s)])

\* Item::kind
Kind(kind) ==
    Builds("kind") /\ Returns("kind", [Last EXCEPT !.kind = kind])

\* self.text.get_or_insert_with(Text::default)
GetOrInsertText(item) == IF item.text.some THEN item.text.val ELSE DefaultText

\* Item::copy_text
CopyText(s) ==
    /\ Builds("copy_text")
    /\ Returns("copy_text",
               [Last EXCEPT !.text = Some([GetOrInsertText(Last) EXCEPT !.copy = Some(s)])])

\* Item::large_type_text
LargeTypeText(s) ==
    /\ Builds("large_type_text")
    /\ Returns("large_type_text",
               [Last EXCEPT !.text = Some([GetOrInsertText(Last) EXCEPT !.large_type = Some(s)])])

\* Item::quicklook_url
QuicklookUrl(s) ==
    Builds("quicklook_url") /\ Returns("quicklook_url", [Last EXCEPT !.quicklook_url = Some(s)])

\* HashMap::insert
Insert(map, key, data) ==
    [k \in DOMAIN map \cup {key} |-> IF k = key THEN data ELSE map[k]]

\* Item::modifier
Modifier(m) ==
    /\ Builds("modifier")
    /\ Returns("modifier", [Last EXCEPT !.modifiers = Insert(@, m.key, m.data)])

\* Output::rerun
Rerun(d) ==
    /\ ~json.some
    /\ out' = [out EXCEPT !.rerun = Some(d)]
    /\ UNCHANGED <<cache, host, std, iter, json>>

\* (a bug: the new items are put before the ones already there)
Extend_Front(items, new) == new \o items
\* Vec::extend
Extend(items, new) == items \o new

\* Output::items, given the items built since the last call
Items ==
    /\ ~json.some
    /\ out' = [out EXCEPT !.items = Extend(@, iter)]
    /\ iter' = <<>>
    /\ UNCHANGED <<cache, host, std, json>>

\* Output::write into a writer that takes everything
Write(ords) ==
    /\ ~json.some
    /\ json' = Some(SerializeOutput(out, ords))
    /\ UNCHANGED <<cache, host, std, iter, out>>

NextOutput ==
    \/ \E t \in Titles : ItemNew(t)
    \/ \E s \in Strs : Subtitle(s)
    \/ \E s \in Strs : Uid(s)
    \/ \E s \in Strs : Arg(s)
    \/ \E i \in Icons : Icon(i)
    \/ \E b \in BOOLEAN : Valid(b)
    \/ \E s \in Strs : Matches(s)
    \/ \E s \in Strs : Autocomplete(s)
    \/ \E k \in Kinds : Kind(k)
    \/ \E s \in Strs : CopyText(s)
    \/ \E s \in Strs : LargeTypeText(s)
    \/ \E s \in Strs : QuicklookUrl(s)
    \/ \E m \in Modifiers : Modifier(m)
    \/ \E d \in RerunDurations : Rerun(d)
    \/ Items
    \/ \E ords \in [1..Len(out.items) -> KeyOrders] : Write(ords)

\* no cache is built and no call of load is made
InitScript ==
    /\ InitProcs
    /\ cfg = DefaultCfg
    /\ InitCalls([i \in Calls |-> <<"k1">>], [i \in Calls |-> <<"a">>])
    /\ InitFs([k \in Subdirs |-> UnusedKey])

SpecOutput == InitScript /\ [][NextOutput]_vars

\* a step of the detached child of call i
ChildStep(i) ==
    \/ \E n \in 0..Len(StdFds) : ExecChild(i, n)
    \/ \E mode \in PanicModes : Panic(i, mode)
    \/ \E r \in ComputeResults(i) : Compute(i, r)
    \/ \E ok \in BOOLEAN : CreateTmp(i, ok)
    \/ \E ok \in BOOLEAN : WriteTmp(i, ok)
    \/ \E ok \in BOOLEAN : Rename(i, ok)

\* a forked child is a process of its own, which the operating system keeps
\* scheduling until it exits, whatever becomes of the process that forked it
Fairness == \A i \in Calls : WF_vars(ChildStep(i))

\* every call has the checksum of the entries of the start
InitFair ==
    /\ InitProcs
    /\ cfg = DefaultCfg
    /\ InitCalls([i \in Calls |-> <<"k1">>], [i \in Calls |-> <<"a">>])
    /\ \E f \in InitKey : InitFs([k \in Subdirs |-> IF k = "k1" THEN f ELSE UnusedKey])

SpecFair == InitFair /\ [][Next]_vars /\ Fairness

\* Caches built with every poll_interval and poll_duration up to the bounds,
\* on a key nothing is stored for yet
PollCfgs ==
    {[ttl |-> 1, poll_interval |-> pi, poll_duration |-> pd] :
        pi \in 0..MaxInterval, pd \in 0..MaxDuration}

InitPoll ==
    /\ InitProcs
    /\ cfg \in PollCfgs
    /\ InitCalls([i \in Calls |-> <<"k1">>], [i \in Calls |-> <<"a">>])
    /\ \E f \in {x \in InitKey : ~x.entry.exists} :
          InitFs([k \in Subdirs |-> IF k = "k1" THEN f ELSE UnusedKey])

SpecPoll == InitPoll /\ [][Next]_vars

(***************************************************************************)
(* The claims.                                                             *)
(***************************************************************************)
\* call i took the arm of an entry that was read and deserialized
ReadEntry(i) == load[i].pc = "done" /\ load[i].curr.ok
\* call i found no entry and spawned a refresh
MissingPath(i) == load[i].spawns = 1 /\ ~load[i].curr.ok
\* the entry call i read was stale: other checksum, or older than ttl
Stale(i) ==
    \/ load[i].curr.checksum # load[i].checksum
    \/ load[i].aged /\ load[i].age > cfg.ttl
\* the refresh of call i is between taking the lock and its rename
InCritical(i) == child[i].pc \in {"compute", "create", "write", "rename"}
\* failures of compute and of the file system, as opposed to the code's own
EnvFailures == {"ComputeError", "CreateError", "WriteError", "RenameError"}

\* C1: a call that read an entry with the checksum it was given and an age
\* of at most ttl (ttl itself included) returns the payload of that entry,
\* forks no child, does not sleep, and its compute is never run.
C1_FreshHit ==
    \A i \in Calls :
        (load[i].pc = "done" /\ load[i].aged /\ load[i].age \in 0..cfg.ttl)
            => /\ load[i].result = Res("Ok", load[i].curr.data)
               /\ load[i].curr = Deserialize(fs0[KeyOf(i)][EntryPath].bytes)
                   \/ \E j \in Calls : load[i].curr.data = ComputeValue(j)
               /\ load[i].spawns = 0
               /\ load[i].slept = 0
               /\ child[i] = InitChild

\* a call returned the payload of an entry exactly ttl old without a spawn
C1_Witness ==
    \E i \in Calls :
        /\ load[i].pc = "done" /\ load[i].aged /\ load[i].age = cfg.ttl
        /\ load[i].result = Res("Ok", <<"o">>)
        /\ load[i].spawns = 0

\* C2 as stated: a call that read a stale entry returns its payload without
\* sleeping, and exactly one refresh is spawned by it.
C2_Original ==
    \A i \in Calls :
        (ReadEntry(i) /\ Stale(i))
            => /\ load[i].result = Res("Ok", load[i].curr.data)
               /\ load[i].slept = 0
               /\ load[i].spawns = 1

\* C2, amended: a call that read a stale entry never sleeps; it returns the
\* payload of the entry it read with exactly one child forked, or, when the
\* fork fails, the spawn failure with no child.
C2_StaleHit ==
    \A i \in Calls :
        (ReadEntry(i) /\ Stale(i))
            => /\ load[i].slept = 0
               /\ \/ /\ load[i].result = Res("Ok", load[i].curr.data)
                     /\ load[i].spawns = 1
                     /\ child[i].pc # "none"
                  \/ /\ load[i].result = Res("Spawn", <<>>)
                     /\ load[i].spawns = 0
                     /\ child[i] = InitChild

\* one call served an entry older than ttl and another one an entry with a
\* different checksum, each with a refresh spawned
C2_Witness ==
    \E i, j \in Calls :
        /\ ReadEntry(i) /\ load[i].aged /\ load[i].age > cfg.ttl
        /\ load[i].result.kind = "Ok" /\ load[i].spawns = 1
        /\ ReadEntry(j) /\ load[j].curr.checksum # load[j].checksum
        /\ load[j].result.kind = "Ok" /\ load[j].spawns = 1 /\ child[j].pc # "none"

\* C3 as stated: on a key whose subdirectory does not exist, with no other
\* call, a poll made after the refresh has ended without a failure of
\* compute or of the file system returns the payload compute produced.
C3_ColdStart ==
    [][\A i \in Calls :
        ( /\ ~dir0[KeyOf(i)]
          /\ MissingPath(i)
          /\ \A j \in Calls : j # i => load[j].pc = "idle"
          /\ child[i].pc = "exit" /\ child[i].outcome \notin EnvFailures
          /\ load[i].pc = "sleep" /\ load'[i].pc # "sleep"
          /\ load'[i].seen # "Io" )
            => load'[i].result = Res("Ok", ComputeValue(i))]_vars

\* two calls on the same key that saw the same missing or stale entry
SawSame(i, j) ==
    /\ i # j
    /\ KeyOf(i) = KeyOf(j)
    /\ load[i].spawns = 1 /\ load[j].spawns = 1
    /\ load[i].curr = load[j].curr

\* C4 as stated: of two refreshes spawned by calls that saw the same entry,
\* however they interleave, exactly one runs compute and exactly one renames.
C4_Original ==
    \A i, j \in Calls :
        ( /\ SawSame(i, j)
          /\ child[i].pc = "exit" /\ child[j].pc = "exit"
          /\ {child[i].outcome, child[j].outcome} \subseteq {"Updated", "Contended"} )
            => /\ child[i].computes + child[j].computes = 1
               /\ child[i].renames + child[j].renames = 1

\* C4, amended: two refreshes of the same key are never both between taking
\* the lock and the rename; a refresh that finds the lock held runs no
\* compute and writes nothing; no refresh runs compute twice.
C4_MutualExclusion ==
    \A i, j \in Calls :
        (i # j /\ KeyOf(i) = KeyOf(j))
            => /\ ~(InCritical(i) /\ InCritical(j))
               /\ InCritical(i) => lock[KeyOf(i)] = i
               /\ child[i].outcome = "Contended"
                     => child[i].computes = 0 /\ child[i].writes = 0
               /\ child[i].computes <= 1 /\ child[i].renames <= child[i].computes

\* two refreshes of calls that saw the same entry: one wrote, one found the lock held
C4_Witness ==
    \E i, j \in Calls :
        /\ SawSame(i, j)
        /\ child[i].outcome = "Updated" /\ child[i].computes = 1
        /\ child[j].outcome = "Contended"

\* the complete entries a refresh of key k can write
Written(k) ==
    {Serialize([modified |-> m, checksum |-> load[i].checksum, data |-> ComputeValue(i)]) :
        i \in {j \in Calls : KeyOf(j) = k}, m \in 0..MaxTime}

\* C5: the entry file of a key is what it was at the start (absent or not),
\* or a complete entry written by a refresh: never a file in the writing.
C5_Atomic ==
    \A k \in Subdirs :
        \/ Entry(k) = fs0[k][EntryPath]
        \/ Entry(k).exists /\ Entry(k).bytes \in Written(k)

\* a refresh is part-way through its write, the staging file holds a part
\* of the new entry, and a call is about to read the previous entry
C5_Witness ==
    \E i, j \in Calls :
        /\ child[i].pc = "write" /\ child[i].off = 2
        /\ Tmp(KeyOf(i)).exists
        /\ ~Deserialize(Tmp(KeyOf(i)).bytes).ok
        /\ Entry(KeyOf(i)).exists
        /\ load[j].pc = "idle" /\ KeyOf(j) = KeyOf(i)

C7_RoundTrip ==
    \A i \in Calls :
        child[i].pc = "rename"
            => Deserialize(Tmp(KeyOf(i)).bytes)
                 = [ok |-> TRUE, modified |-> child[i].modified,
                    checksum |-> load[i].checksum, data |-> child[i].data]

\* C8: the entry file changes only in the rename step of a refresh that
\* succeeds, which renames once; a refresh that ends in any other way leaves
\* the entry file as it was; taking the lock, finding it held and running
\* compute change no file, and a refresh that ends there has written nothing.
C8_FailureLeavesEntry ==
    [][\A i \in Calls :
        LET k == KeyOf(i) IN
        /\ (\A j \in Calls : child'[j] = child[j] \/ j = i)
              => \/ fs'[k][EntryPath] = fs[k][EntryPath]
                 \/ /\ child[i].pc = "rename"
                    /\ child'[i].outcome = "Updated"
                    /\ child'[i].renames = 1
                    /\ fs'[k][EntryPath] = fs[k][TmpPath]
        /\ (child[i].pc # "exit" /\ child'[i].pc = "exit" /\ child'[i].outcome # "Updated")
              => fs'[k][EntryPath] = fs[k][EntryPath]
        /\ (child[i].pc \in {"forked", "compute"} /\ child'[i] # child[i])
              => fs' = fs /\ dir' = dir
        /\ child'[i].outcome \in {"ComputeError", "Contended", "LockError"}
              => child'[i].writes = 0
        /\ child'[i].outcome = "Updated" => child'[i].renames = 1]_vars

\* a refresh failed while writing the staging file, another one found the
\* lock held, and the entry file is the one of the start
C8_Witness ==
    \E i, j \in Calls :
        /\ child[i].outcome = "WriteError"
        /\ child[j].outcome \in {"Contended", "ComputeError"}
        /\ Tmp(KeyOf(i)).exists
        /\ Entry(KeyOf(i)).exists
        /\ Entry(KeyOf(i)) = fs0[KeyOf(i)][EntryPath]

\* C9: a call whose read of the entry file yields bytes that do not
\* deserialize has ended with the deserialization failure, at the first read
\* and at a read of the poll loop.
C9_BadEntry ==
    \A i \in Calls :
        load[i].seen = "Bad"
            => /\ load[i].pc = "done"
               /\ load[i].result = Res("Deserialize", <<>>)
               /\ load[i].spawns = 1 <=> load[i].slept > 0

\* one call hit an undecodable entry at its first read, another one in the poll loop
C9_Witness ==
    \E i, j \in Calls :
        /\ load[i].seen = "Bad" /\ load[i].slept = 0 /\ load[i].result.kind = "Deserialize"
        /\ load[j].seen = "Bad" /\ load[j].slept > 0 /\ load[j].result.kind = "Deserialize"

\* C10 as stated: a call whose read of the entry file failed with an I/O
\* error other than NotFound has ended with that error.
C10_IoPropagates ==
    \A i \in Calls :
        load[i].seen = "Io" => load[i].pc = "done" /\ load[i].result = Res("Io", <<>>)

\* C11 as stated: a call that tests an entry whose modified time is later
\* than the clock returns the clock-skew failure, whatever its checksum.
C11_Original ==
    [][\A i \in Calls :
        (load[i].pc = "check" /\ load'[i].pc = "done" /\ now < load[i].curr.modified)
            => load'[i].result = Res("ClockSkew", <<>>)]_vars

\* C11, amended: a call that tests an entry whose modified time is later than
\* the clock returns the clock-skew failure, with no payload and no child,
\* when the checksum it was given is the stored one; when it is not, the age
\* is not computed: the call returns the payload and forks a refresh, or
\* returns the spawn failure.
C11_ClockSkew ==
    [][\A i \in Calls :
        (load[i].pc = "check" /\ load'[i].pc = "done" /\ now < load[i].curr.modified)
            => IF load[i].curr.checksum = load[i].checksum
               THEN /\ load'[i].result = Res("ClockSkew", <<>>)
                    /\ load'[i].spawns = 0
                    /\ child'[i] = InitChild
               ELSE \/ /\ load'[i].result = Res("Ok", load[i].curr.data)
                       /\ child'[i].pc = "forked"
                    \/ /\ load'[i].result = Res("Spawn", <<>>)
                       /\ child'[i] = InitChild]_vars

\* a call ended with the clock-skew failure on an entry from the future, and
\* another call, with another checksum, was served the payload of that entry
C11_Witness ==
    \E i, j \in Calls :
        /\ load[i].result = Res("ClockSkew", <<>>) /\ load[i].age < 0
        /\ load[i].spawns = 0
        /\ load[j].curr.modified > 0 /\ load[j].result = Res("Ok", <<"o">>)
        /\ load[j].curr.checksum # load[j].checksum

\* C12 as stated: a call returns Timeout only when the entry file was absent
\* at its first read and at every read of its poll loop, the last one
\* included; a call that read an entry at its first read never ends in Timeout.
C12_TimeoutOnlyMissing ==
    [][\A i \in Calls :
        (load'[i].result.kind = "Timeout" /\ load[i].result.kind # "Timeout")
            => /\ load[i].pc = "loop"
               /\ ~load[i].curr.ok
               /\ ~load[i].there]_vars

\* C13: a call that had to spawn (no entry, or a stale one) and has ended
\* without a child has returned the spawn failure; a call that returned the
\* spawn failure was on one of these two paths, never slept, and its compute
\* ran in no process.
C13_SpawnFailure ==
    \A i \in Calls :
        /\ ( /\ load[i].pc = "done" /\ child[i].pc = "none"
             /\ load[i].seen = "NotFound" \/ (load[i].curr.ok /\ Stale(i)) )
              => load[i].result = Res("Spawn", <<>>)
        /\ load[i].result.kind = "Spawn"
              => /\ load[i].pc = "done"
                 /\ load[i].seen = "NotFound" \/ (load[i].curr.ok /\ Stale(i))
                 /\ load[i].slept = 0 /\ load[i].spawns = 0
                 /\ child[i] = InitChild /\ child[i].computes = 0

\* a call on a key without an entry returned the spawn failure: no child, no
\* entry, no sleep
C13_Witness ==
    \E i \in Calls :
        /\ load[i].result = Res("Spawn", <<>>)
        /\ load[i].seen = "NotFound"
        /\ ~Entry(KeyOf(i)).exists
        /\ child[i].pc = "none"

\* call i found no entry, its refresh ended with the error of compute, and no
\* other refresh has written anything for the key
FailedPopulation(i) ==
    /\ MissingPath(i)
    /\ child[i].outcome = "ComputeError"
    /\ \A j \in Calls : j # i => child[j].writes = 0

\* call j makes its first read, and the read itself does not fail
FirstRead(j) ==
    load[j].pc = "idle" /\ load'[j].pc # "idle" /\ load'[j].seen # "Io"

\* C14 as stated: after a call on a missing entry whose refresh failed in
\* compute has returned, the next call for the key spawns a refresh and polls.
C14_Original ==
    [][\A i, j \in Calls :
        ( /\ i # j /\ KeyOf(i) = KeyOf(j)
          /\ load[i].pc = "done" /\ FailedPopulation(i)
          /\ FirstRead(j) )
            => load'[j].pc = "loop" /\ child'[j].pc = "forked"]_vars

\* C14, amended: a call on a missing entry whose refresh failed in compute
\* returns Timeout and the entry stays absent; the next call for the key
\* finds no entry again and spawns a refresh and polls, or, when its fork
\* fails, returns the spawn failure.
C14_RetryAfterFailure ==
    /\ [](\A i \in Calls :
            FailedPopulation(i)
                => /\ ~Entry(KeyOf(i)).exists
                   /\ load[i].pc = "done" => load[i].result = Res("Timeout", <<>>))
    /\ [][\A i, j \in Calls :
            ( /\ i # j /\ KeyOf(i) = KeyOf(j)
              /\ load[i].pc = "done" /\ FailedPopulation(i)
              /\ FirstRead(j) )
                => /\ load'[j].seen = "NotFound"
                   /\ \/ /\ load'[j].pc = "loop" /\ load'[j].spawns = 1
                         /\ child'[j].pc = "forked"
                      \/ /\ load'[j].result = Res("Spawn", <<>>)
                         /\ child'[j] = InitChild]_vars

\* a call timed out after its refresh failed in compute, the entry is absent,
\* and the next call has spawned a refresh of its own and is polling
C14_Witness ==
    \E i, j \in Calls :
        /\ i < j /\ KeyOf(i) = KeyOf(j)
        /\ load[i].result = Res("Timeout", <<>>) /\ FailedPopulation(i)
        /\ ~load[i].pending
        /\ ~Entry(KeyOf(i)).exists
        /\ load[j].pc = "sleep" /\ load[j].spawns = 1 /\ child[j].pc = "forked"
        /\ load[j].start = MaxTime

\* call i returned Timeout while its refresh was still running, and that
\* refresh, the only one to write the key, has since renamed its entry
LateRefresh(i) ==
    /\ load[i].result = Res("Timeout", <<>>) /\ load[i].pending
    /\ child[i].outcome = "Updated"
    /\ \A q \in Calls : q # i => child[q].writes = 0

\* C15 as stated: when a call has returned Timeout with its refresh still
\* running and the refresh has gone on to write the entry, a later call for
\* the key with the same checksum reads the payload that refresh computed.
C15_LateRefresh ==
    [][\A i, j \in Calls :
        ( /\ i # j /\ KeyOf(i) = KeyOf(j) /\ load[i].checksum = load[j].checksum
          /\ LateRefresh(i)
          /\ FirstRead(j) )
            => /\ load'[j].curr.ok
               /\ load'[j].curr.data = ComputeValue(i)
               /\ load'[j].result.kind \notin {"Timeout", "Deserialize"}]_vars

\* call i was served an entry with its own checksum that was older than ttl,
\* and forked a refresh
StaleSpawn(i) ==
    /\ ReadEntry(i) /\ load[i].curr.checksum = load[i].checksum
    /\ load[i].aged /\ load[i].age > cfg.ttl
    /\ load[i].result = Res("Ok", load[i].curr.data)
    /\ load[i].spawns = 1

\* the refresh of call i has ended
Ended(i) == child[i].pc \in {"exit", "caller"}

\* the entry file holds what the refresh of call i computed, under the
\* checksum of call i, with a modified time later than that of the entry
\* call i was served
Refreshed(i) ==
    LET e == Deserialize(Entry(KeyOf(i)).bytes) IN
    /\ Entry(KeyOf(i)).exists /\ e.ok
    /\ e.data = ComputeValue(i) /\ e.checksum = load[i].checksum
    /\ e.modified > load[i].curr.modified

\* C16: the refresh forked on a stale entry eventually ends, and when it ends
\* with success the entry is then the refreshed one; it stays so while no other
\* refresh writes the key; and a call with the same checksum that reads the
\* refreshed entry inside ttl returns the new payload and forks nothing.
C16_RefreshLands ==
    /\ \A i \in Calls :
          (StaleSpawn(i) /\ ~Ended(i))
              ~> (Ended(i) /\ (child[i].outcome = "Updated" => Refreshed(i)))
    /\ [](\A i \in Calls :
            ( /\ StaleSpawn(i) /\ child[i].outcome = "Updated"
              /\ \A q \in Calls : q # i => child[q].writes = 0 )
                => /\ Refreshed(i)
                   /\ \A j \in Calls :
                        ( /\ j # i /\ load[j].pc = "done"
                          /\ KeyOf(j) = KeyOf(i) /\ load[j].checksum = load[i].checksum
                          /\ load[j].curr = Deserialize(Entry(KeyOf(i)).bytes)
                          /\ load[j].aged /\ load[j].age \in 0..cfg.ttl )
                            => /\ load[j].result = Res("Ok", ComputeValue(i))
                               /\ load[j].spawns = 0
                               /\ child[j] = InitChild)

\* a call was served the stale payload, its refresh wrote the new entry, and
\* a following call with the same checksum was served the new payload
\* without a refresh of its own
C16_Witness ==
    \E i, j \in Calls :
        /\ i < j /\ StaleSpawn(i) /\ load[i].result = Res("Ok", <<"o">>)
        /\ child[i].outcome = "Updated" /\ Refreshed(i)
        /\ load[j].pc = "done" /\ load[j].checksum = load[i].checksum
        /\ load[j].curr = Deserialize(Entry(KeyOf(i)).bytes)
        /\ load[j].result = Res("Ok", ComputeValue(i))
        /\ load[j].spawns = 0 /\ child[j].pc = "none"

\* C17: in the step in which the child comes to exist, spawn has returned Ok
\* to the caller, which is past the spawn (polling, or done with the stale
\* payload), and the child has not taken a step; no step of a child changes
\* anything of a caller, however the operation ends, and no step of a caller
\* looks at or changes a child that exists; a caller served a stale entry has
\* the payload as its result whatever became of its child.
C17_SpawnReturns ==
    /\ [][\A i \in Calls :
            /\ (child[i].pc = "none" /\ child'[i].pc # "none")
                  => /\ child'[i] = [InitChild EXCEPT !.pc = "forked"]
                     /\ load'[i].spawns = 1
                     /\ \/ load'[i].pc = "loop"
                        \/ load'[i].pc = "done" /\ load'[i].result = Res("Ok", load[i].curr.data)
            /\ (child[i].pc # "none" /\ child'[i] # child[i]) => load' = load
            /\ (child[i].pc # "none" /\ load'[i] # load[i]) => child'[i] = child[i]]_vars
    /\ [](\A i \in Calls :
            (load[i].pc = "done" /\ load[i].curr.ok /\ child[i].pc # "none")
                => load[i].result = Res("Ok", load[i].curr.data))

\* two callers were served the stale payload; the operation of one has
\* panicked and the operation of the other has not finished
C17_Witness ==
    \E i, j \in Calls :
        /\ load[i].result = Res("Ok", <<"o">>) /\ PanicLogged(child[i])
        /\ load[j].result = Res("Ok", <<"o">>) /\ child[j].pc = "compute"

\* C18 as stated: a child whose operation panicked has logged the panic and
\* has exited with a non-zero status; it is not executing the caller's program.
C18_PanicEndsChild ==
    \A i \in Calls :
        PanicLogged(child[i])
            => /\ child[i].pc = "exit"
               /\ ExitStatus(child[i]) > 0

\* call i has ended on a path that calls spawn (its read found no entry, or
\* a stale one) and no child of it exists: its fork failed
ForkFailed(i) ==
    /\ load[i].pc = "done" /\ child[i].pc = "none"
    /\ \/ load[i].seen = "NotFound"
       \/ load[i].curr.ok /\ Stale(i)

\* C19: a call has the spawn failure as its result exactly when it called
\* spawn and no child came to exist (the fork failed), and then its operation ran in no
\* process; a child that failed to close a standard stream exits with status
\* 1 without running the operation, and its caller, for which spawn returned
\* Ok, never has the spawn failure as its result.
C19_SpawnErrorIffForkFails ==
    \A i \in Calls :
        /\ load[i].result.kind = "Spawn" <=> ForkFailed(i)
        /\ load[i].result.kind = "Spawn" => child[i].computes = 0 /\ load[i].spawns = 0
        /\ child[i].pc # "none" => load[i].spawns = 1 /\ load[i].result.kind # "Spawn"
        /\ child[i].outcome = "CloseError"
              => /\ child[i].pc = "exit" /\ ExitStatus(child[i]) = 1
                 /\ child[i].computes = 0 /\ child[i].writes = 0
                 /\ ~PanicLogged(child[i])

\* a child failed to close a standard stream and its caller went on to poll
\* until the Timeout; for another call the fork failed
C19_Witness ==
    \E i, j \in Calls :
        /\ child[i].outcome = "CloseError" /\ load[i].result = Res("Timeout", <<>>)
        /\ load[j].result = Res("Spawn", <<>>) /\ child[j].pc = "none"

\* the step is one of call i or of its child, and of no other process
StepOf(i) ==
    /\ load'[i] # load[i] \/ child'[i] # child[i]
    /\ \A j \in Calls : j # i => load'[j] = load[j] /\ child'[j] = child[j]

\* the refresh of call i finds the lock held in this step
Contends(i) == child[i].pc = "forked" /\ child'[i].outcome = "Contended"

\* no step of call i or of its refresh is hindered by the lock of call j's
\* key or changes the entry file, the staging file or the lock of that key
Independent(i, j) ==
    /\ Contends(i) => lock[KeyOf(i)] # j
    /\ StepOf(i) => /\ fs'[KeyOf(j)] = fs[KeyOf(j)]
                    /\ lock'[KeyOf(j)] = lock[KeyOf(j)]

\* C20 as stated: for calls with two distinct keys, a refresh that holds the
\* lock of the one key never keeps a refresh of the other from acquiring its
\* lock, and no step of a call or refresh on the one key changes the entry
\* file, the staging file or the lock of the other.
C20_KeysIndependent ==
    [][\A i, j \in Calls : load[i].key # load[j].key => Independent(i, j)]_vars

\* the same for calls whose keys name different subdirectories
C20_SubdirsIndependent ==
    [][\A i, j \in Calls : KeyOf(i) # KeyOf(j) => Independent(i, j)]_vars

\* C21: in every step a subdirectory that exists stays, and so does an entry
\* file that exists; an entry file that changes becomes the staging file of
\* that step, which is one complete entry: nothing of the previous entry is
\* left in it.
C21_EntryStays ==
    [][\A k \in Subdirs :
        /\ dir[k] => dir'[k]
        /\ Entry(k).exists => fs'[k][EntryPath].exists
        /\ fs'[k][EntryPath] # fs[k][EntryPath]
              => /\ fs'[k][EntryPath] = fs[k][TmpPath]
                 /\ fs'[k][EntryPath].bytes \in Written(k)]_vars

\* the entry of the start was replaced by one refresh and then by another,
\* and the entry file holds the entry of the second one alone
C21_Witness ==
    \E i, j \in Calls :
        /\ i # j /\ KeyOf(i) = KeyOf(j)
        /\ fs0[KeyOf(i)][EntryPath].exists
        /\ child[i].outcome = "Updated" /\ child[j].outcome = "Updated"
        /\ \E m \in 0..MaxTime :
              Entry(KeyOf(j)).bytes =
                  Serialize([modified |-> m, checksum |-> load[j].checksum,
                             data |-> ComputeValue(j)])
        /\ Entry(KeyOf(j)) # fs0[KeyOf(j)][EntryPath]

\* the variable of the environment is set to a string that is not empty
IsSet(name) == env.vars[name].kind = "str" /\ env.vars[name].val # ""

\* the bundle ids that are available: the one of the environment, the one
\* set on the builder
AvailableIds ==
    (IF IsSet("alfred_workflow_bundleid")
     THEN {env.vars["alfred_workflow_bundleid"].val} ELSE {})
    \cup (IF builder.bundle_id.some THEN {builder.bundle_id.val} ELSE {})

\* C22: once build has returned, the root of the cache is the directory set
\* on the builder if one was set; if none was set, the directory of
\* alfred_workflow_cache if that is set; and only if neither is set, the home
\* directory joined with Alfred's workflow data path and a bundle id.
C22_RootPriority ==
    built.done =>
        /\ builder.directory.some
              => built.ok /\ built.directory = builder.directory.val
        /\ (~builder.directory.some /\ IsSet("alfred_workflow_cache"))
              => /\ built.ok
                 /\ built.directory = <<env.vars["alfred_workflow_cache"].val>>
        /\ (~builder.directory.some /\ ~IsSet("alfred_workflow_cache") /\ built.ok)
              => /\ env.home.some
                 /\ \E id \in AvailableIds :
                       built.directory = env.home.val \o <<AlfredData, id>>

\* build has returned the directory set on the builder although the
\* environment has a cache directory, a bundle id and a home directory
C22_Witness ==
    /\ built.ok /\ built.directory = <<"d">>
    /\ IsSet("alfred_workflow_cache") /\ IsSet("alfred_workflow_bundleid")
    /\ builder.bundle_id.some /\ env.home.some

\* C23: build fails, for want of a bundle id, when no directory is set on the
\* builder, alfred_workflow_cache is not set and no bundle id is available;
\* it succeeds whenever a directory is set on the builder or
\* alfred_workflow_cache is set, with or without a bundle id.
C23_BuildFails ==
    built.done =>
        /\ ( /\ ~builder.directory.some
             /\ ~IsSet("alfred_workflow_cache")
             /\ AvailableIds = {} )
              => ~built.ok /\ built.err = "no bundle id set"
        /\ (builder.directory.some \/ IsSet("alfred_workflow_cache")) => built.ok

\* build failed for want of a bundle id, in an environment with a home
\* directory and with both variables set to the empty string
C23_Witness ==
    /\ built.done /\ ~built.ok /\ built.err = "no bundle id set"
    /\ env.home.some
    /\ \A n \in EnvNames : env.vars[n] = Str("")
    /\ builder.ttl.some

\* C24: in a Cache that was built, each of ttl, poll_interval and
\* poll_duration is the value set on the builder if one was set, and
\* otherwise 30 s, 100 ms and 1 s (in milliseconds).
C24_Defaults ==
    built.ok =>
        /\ built.ttl = IF builder.ttl.some THEN builder.ttl.val ELSE 30000
        /\ built.poll_interval =
              IF builder.poll_interval.some THEN builder.poll_interval.val ELSE 100
        /\ built.poll_duration =
              IF builder.poll_duration.some THEN builder.poll_duration.val ELSE 1000

\* a Cache built with only poll_interval set, to 7 ms: the other two are the
\* defaults
C24_Witness ==
    /\ built.ok
    /\ builder.poll_interval = Some(7) /\ ~builder.ttl.some /\ ~builder.poll_duration.some
    /\ built.ttl = 30000 /\ built.poll_interval = 7 /\ built.poll_duration = 1000

\* the environment with every variable that is set to the empty string unset
Blank(e) ==
    [e EXCEPT !.vars = [n \in EnvNames |-> IF e.vars[n] = Str("") THEN Unset ELSE e.vars[n]]]

\* C25: var is None for a variable that is absent, not valid Unicode or
\* empty, and Some of its value otherwise; and what build returns is what it
\* returns in the environment in which the empty variables are not set.
C25_EmptyIsUnset ==
    built.done =>
        /\ \A n \in EnvNames :
              Var(env, n) = IF env.vars[n].kind = "str" /\ env.vars[n].val # ""
                            THEN Some(env.vars[n].val) ELSE None
        /\ built = BuildResult(builder, Blank(env))

\* with both variables set to the empty string, build went past the
\* directory of the host and took the bundle id set on the builder
C25_Witness ==
    /\ \A n \in EnvNames : env.vars[n] = Str("")
    /\ ~builder.directory.some
    /\ built.ok /\ built.directory = <<"home", AlfredData, "b">>

\* a JSON object has a member of that name
Has(obj, name) == \E j \in DOMAIN obj.members : obj.members[j][1] = name
\* the value of that member
Get(obj, name) == obj.members[CHOOSE j \in DOMAIN obj.members : obj.members[j][1] = name][2]

\* the builder methods that set each optional member of an item
SetBy ==
    [subtitle |-> {"subtitle"}, uid |-> {"uid"}, arg |-> {"arg"}, icon |-> {"icon"},
     valid |-> {"valid"}, match |-> {"matches"}, autocomplete |-> {"autocomplete"},
     text |-> {"copy_text", "large_type_text"}, quicklookurl |-> {"quicklook_url"}]

\* the JSON object obj has the members that the building of item calls for
ItemWritten(obj, item) ==
    /\ Has(obj, "title")
    /\ \A name \in DOMAIN SetBy : Has(obj, name) <=> SetBy[name] \cap item.called # {}
    /\ Has(obj, "text") =>
          /\ Has(Get(obj, "text"), "copy") <=> "copy_text" \in item.called
          /\ Has(Get(obj, "text"), "largetype") <=> "large_type_text" \in item.called
    /\ Has(obj, "type") <=> item.kind # "Default"
    /\ Has(obj, "mods") <=> "modifier" \in item.called

\* what was written is the output, item by item
OutputWritten ==
    json.some =>
        /\ Has(json.val, "rerun") <=> out.rerun.some
        /\ Has(json.val, "items")
        /\ Len(Get(json.val, "items").elems) = Len(out.items)
        /\ \A j \in 1..Len(out.items) :
              ItemWritten(Get(json.val, "items").elems[j], out.items[j])

\* C26: in the JSON written for an Output, an optional member of an item is
\* there iff one of its builder methods was called, "type" iff the kind is
\* not the default, "mods" iff a modifier was added, "rerun" iff rerun was
\* set, and "items" holds the items in the order they were added: every
\* call of Output::items puts its items, in their order, after the ones
\* already there.
C26_OutputJson ==
    [][/\ OutputWritten'
       /\ out'.items # out.items => out'.items = out.items \o iter]_vars

\* two different items were added and written in that order with rerun set:
\* the first with a kind and both modifiers, the second with a subtitle only
C26_Witness ==
    /\ json.some
    /\ Has(json.val, "rerun")
    /\ Len(out.items) = 2
    /\ out.items[1].called = {"kind", "modifier"}
    /\ out.items[2].called = {"subtitle"}
    /\ LET elems == Get(json.val, "items").elems IN
          /\ Has(elems[1], "type") /\ Has(elems[1], "mods")
          /\ Len(Get(elems[1], "mods").members) = 2
          /\ ~Has(elems[1], "subtitle")
          /\ Has(elems[2], "subtitle") /\ ~Has(elems[2], "type") /\ ~Has(elems[2], "mods")

\* the refreshes that are between taking the lock of subdirectory k and the
\* end of their rename
Writers(k) == {i \in Calls : KeyOf(i) = k /\ InCritical(i)}

\* C27: for every key, at most one refresh is between taking the key's lock
\* and the end of its rename, and that refresh holds the lock all along:
\* from the state compute is invoked in, through every step that creates or
\* writes the staging file, to the state the rename is made in.
C27_OneWriter ==
    [][/\ \A k \in Subdirs : Cardinality(Writers(k)') <= 1
       /\ \A i \in Calls :
             /\ InCritical(i)' => lock'[KeyOf(i)] = i
             /\ (\/ child'[i].computes # child[i].computes
                 \/ child'[i].writes # child[i].writes
                 \/ child'[i].renames # child[i].renames) => lock[KeyOf(i)] = i]_vars

\* a refresh is writing the staging file under the lock while the refresh of
\* another call of the same key is about to try the lock
C27_Witness ==
    \E i, j \in Calls :
        /\ i # j /\ KeyOf(i) = KeyOf(j)
        /\ child[i].pc = "write" /\ child[i].off > 0 /\ lock[KeyOf(i)] = i
        /\ child[j].pc = "forked"

\* C28: compute runs only in the detached child, never in the process that
\* called load: the step that runs it is a step of a forked child that holds
\* the lock of its key, it leaves the calling process as it was, and no
\* refresh takes it twice; a refresh that finds the lock held runs no
\* compute, writes nothing, and ends with status 0.
C28_ComputeInChild ==
    [][\A i \in Calls :
          /\ child'[i].computes # child[i].computes
                => /\ child[i].pc = "compute"
                   /\ load[i].spawns > 0
                   /\ lock[KeyOf(i)] = i
                   /\ load'[i] = load[i]
                   /\ child[i].computes = 0 /\ child'[i].computes = 1
          /\ child'[i].pc = "none" => child'[i].computes = 0
          /\ child'[i].outcome = "Contended"
                => /\ child'[i].computes = 0 /\ child'[i].writes = 0
                   /\ ExitStatus(child'[i]) = 0]_vars

\* compute ran in the child of a call that had already returned, and the
\* refresh of another call found the lock held and exited with status 0
C28_Witness ==
    \E i, j \in Calls :
        /\ load[i].pc = "done" /\ load[i].result.kind = "Ok"
        /\ child[i].pc = "create" /\ child[i].computes = 1
        /\ child[j].outcome = "Contended" /\ ExitStatus(child[j]) = 0
        /\ child[j].computes = 0

\* the operation handed to spawn was called in child c
OperationRan(c) ==
    \/ c.pc \in {"compute", "create", "write", "rename", "caller"}
    \/ c.outcome \notin {"none", "CloseError"}
\* the operation returned to exec_child
OperationReturned(c) ==
    c.outcome \in {"Contended", "LockError", "ComputeError", "CreateError",
                   "WriteError", "RenameError", "Updated"}

\* C29: in the detached child the streams are closed in the order standard
\* output, standard error, standard input; the panic hook is installed once
\* all three are closed; the operation runs only with the three streams
\* closed and the hook installed; the child exits with status 0 once the
\* operation has returned, and only then; a child in which a close failed
\* never runs the operation, installs no hook, and exits with status 1.
C29_DetachedOrder ==
    \A i \in Calls :
        /\ std[i].closed \in {<<>>, <<"stdout">>, <<"stdout", "stderr">>,
                              <<"stdout", "stderr", "stdin">>}
        /\ std[i].hook => std[i].closed = <<"stdout", "stderr", "stdin">>
        /\ OperationRan(child[i])
              => std[i].hook /\ std[i].closed = <<"stdout", "stderr", "stdin">>
        /\ ExitStatus(child[i]) = 0
              <=> child[i].pc = "exit" /\ OperationReturned(child[i])
        /\ (child[i].pc \notin {"none", "forked"}
              /\ std[i].closed # <<"stdout", "stderr", "stdin">>)
              => /\ ExitStatus(child[i]) = 1
                 /\ ~std[i].hook
                 /\ ~OperationRan(child[i])
                 /\ child[i].computes = 0 /\ child[i].writes = 0

\* one child closed standard output and standard error, failed to close
\* standard input and exited with status 1; another closed the three, ran
\* the operation to its end and exited with status 0
C29_Witness ==
    \E i, j \in Calls :
        /\ std[i].closed = <<"stdout", "stderr">> /\ ExitStatus(child[i]) = 1
        /\ std[j].hook /\ child[j].outcome = "Updated" /\ ExitStatus(child[j]) = 0

\* the refresh of call j tries the lock in this step, with its streams closed
TriesLock(j) == child[j].pc = "forked" /\ child'[j].pc # "forked" /\ std'[j].hook

\* C30: a refresh that has ended, on whatever path (the entry written, a
\* failure of compute or of the staging file or of the rename, a panic in
\* compute, the exit of the process), holds no lock; a lock is held only by a
\* refresh still at work; a refresh that tries the lock of an existing
\* directory once every other refresh of the key has ended acquires it; and
\* a lock that is held is always released.
C30_LockReleased ==
    /\ [](\A i \in Calls : Ended(i) => \A k \in Subdirs : lock[k] # i)
    /\ [](\A k \in Subdirs : lock[k] # 0 => InCritical(lock[k]) /\ KeyOf(lock[k]) = k)
    /\ [][\A j \in Calls :
             (/\ TriesLock(j)
              /\ dir[KeyOf(j)]
              /\ \A i \in Calls \ {j} : KeyOf(i) = KeyOf(j) => child[i].pc \in {"none", "exit", "caller"})
                => child'[j].pc = "compute" /\ lock'[KeyOf(j)] = j]_vars
    /\ \A k \in Subdirs : (lock[k] # 0) ~> (lock[k] = 0)

\* the refresh of one call panicked in compute under the lock and ended, and
\* the refresh of another call of the same key holds the lock after it
C30_Witness ==
    \E i, j \in Calls :
        /\ i # j /\ KeyOf(i) = KeyOf(j)
        /\ child[i].outcome \in {"Aborted", "Unwound", "Caught"} /\ Ended(i)
        /\ lock[KeyOf(j)] = j /\ child[j].pc = "compute"

\* call i reads the entry path in this step (the first read, or a read of the poll loop)
Reads(i) == load[i].pc \in {"idle", "sleep"} /\ load'[i] # load[i]

\* C31: load never reads the staging file. What a read of load finds is
\* what the entry file holds, whatever the staging file holds: it finds an
\* entry only where the entry file exists, and the payload it takes is the
\* payload of the entry file. A staging file that is left behind does not
\* stand in the way of a later refresh: creating the staging file empties
\* it, and the rename puts the whole record of that refresh, and nothing
\* else, in the entry file.
C31_StagingIgnored ==
    [][\A i \in Calls :
          LET k == KeyOf(i) IN
          /\ Reads(i) =>
                /\ load'[i].seen \in {"Good", "Bad"}
                      => /\ dir[k] /\ Entry(k).exists
                         /\ load'[i].seen = "Good" <=> Deserialize(Entry(k).bytes).ok
                /\ load'[i].seen = "NotFound" => ~(dir[k] /\ Entry(k).exists)
                /\ (load'[i].seen = "Good" /\ load[i].pc = "idle")
                      => load'[i].curr = Deserialize(Entry(k).bytes)
                /\ (load'[i].seen = "Good" /\ load[i].pc = "sleep")
                      => load'[i].result = Res("Ok", Deserialize(Entry(k).bytes).data)
          /\ (child[i].pc = "create" /\ child'[i].pc = "write")
                => fs'[k][TmpPath] = File(<<>>)
          /\ child'[i].renames # child[i].renames
                => /\ fs'[k][EntryPath] = File(Serialize(NewRec(i)))
                   /\ ~fs'[k][TmpPath].exists]_vars

\* a refresh failed in the middle of its write and left a staging file
\* behind; the refresh of another call of the key then wrote the staging
\* file again and renamed it over the entry
C31_Witness ==
    \E i, j \in Calls :
        /\ i # j /\ KeyOf(i) = KeyOf(j)
        /\ child[i].outcome = "WriteError" /\ child[i].writes >= 2
        /\ child[j].outcome = "Updated"
        /\ ~Tmp(KeyOf(j)).exists
        /\ Entry(KeyOf(j)).exists
        /\ Deserialize(Entry(KeyOf(j)).bytes).data = ComputeValue(j)

\* the first read of call i, and what it found
FirstFinds(i, seen) == load[i].pc = "idle" /\ load'[i].pc # "idle" /\ load'[i].seen = seen
\* the staleness test of call i on the entry it read
Checks(i) == load[i].pc = "check" /\ load'[i].pc # "check"
\* by the clock of the test, the entry call i read is fresh, or stale
FreshNow(i) ==
    /\ load[i].curr.checksum = load[i].checksum
    /\ now - load[i].curr.modified >= 0
    /\ now - load[i].curr.modified <= cfg.ttl
StaleNow(i) ==
    \/ load[i].curr.checksum # load[i].checksum
    \/ now - load[i].curr.modified > cfg.ttl
\* in this step call i spawns exactly one detached task, or none
SpawnsOne(i) ==
    /\ load[i].spawns = 0 /\ load'[i].spawns = 1
    /\ child[i].pc = "none" /\ child'[i].pc = "forked"
SpawnsNone(i) == load'[i].spawns = load[i].spawns /\ child'[i] = child[i]
\* in this step the fork of call i fails: no task, and the call returns the failure
SpawnFails(i) == SpawnsNone(i) /\ load'[i].result = Res("Spawn", <<>>)

\* C32 as stated: a call spawns at most one detached task: none when the
\* entry is fresh or the first read or its deserialization fails, exactly
\* one when the entry is stale or missing, whatever the other calls do.
C32_Original ==
    [][\A i \in Calls :
          /\ load'[i].spawns <= 1
          /\ (FirstFinds(i, "Io") \/ FirstFinds(i, "Bad") \/ FirstFinds(i, "Good"))
                => SpawnsNone(i)
          /\ FirstFinds(i, "NotFound") => SpawnsOne(i)
          /\ (Checks(i) /\ FreshNow(i)) => SpawnsNone(i)
          /\ (Checks(i) /\ StaleNow(i)) => SpawnsOne(i)
          /\ ~(load[i].pc \in {"idle", "check"}) => SpawnsNone(i) \/ load'[i] = load[i]]_vars

\* C32, amended: a call calls spawn at most once: not at all when the entry
\* is fresh, when the first read or its deserialization fails, or when the
\* age of the entry cannot be computed; exactly once when the entry is stale
\* or missing, and that call makes exactly one detached task when the fork
\* succeeds, and none, with the spawn failure returned, when it fails.
\* Nothing a call spawns depends on the tasks of the other calls.
C32_SpawnOnce ==
    [][\A i \in Calls :
          /\ load'[i].spawns <= 1
          /\ (FirstFinds(i, "Io") \/ FirstFinds(i, "Bad") \/ FirstFinds(i, "Good"))
                => SpawnsNone(i)
          /\ FirstFinds(i, "NotFound") => SpawnsOne(i) \/ SpawnFails(i)
          /\ (Checks(i) /\ FreshNow(i)) => SpawnsNone(i) /\ ~SpawnFails(i)
          /\ (Checks(i) /\ StaleNow(i)) => SpawnsOne(i) \/ SpawnFails(i)
          /\ (Checks(i) /\ ~FreshNow(i) /\ ~StaleNow(i))
                => SpawnsNone(i) /\ load'[i].result = Res("ClockSkew", <<>>)
          /\ (load[i].pc \notin {"idle", "check"} /\ load'[i] # load[i]) => SpawnsNone(i)
          /\ load'[i] = load[i] => load'[i].spawns = load[i].spawns]_vars

\* two calls of one key that found the same stale or missing entry each
\* spawned a task, and both tasks are alive at once
C32_Witness ==
    \E i, j \in Calls :
        /\ i # j /\ KeyOf(i) = KeyOf(j)
        /\ load[i].spawns = 1 /\ load[j].spawns = 1
        /\ child[i].pc \in {"forked", "compute", "create", "write", "rename"}
        /\ child[j].pc = "forked"

\* the entry file of subdirectory k holds bytes that do not deserialize
Malformed(k) == dir[k] /\ Entry(k).exists /\ ~Deserialize(Entry(k).bytes).ok
\* no refresh of subdirectory k is under way, and no call is about to test
\* an entry it read there earlier
Quiet(k) ==
    \A j \in Calls :
        KeyOf(j) = k => child[j].pc \in {"none", "exit", "caller"} /\ load[j].pc # "check"

\* C33: a key whose entry file is malformed is stuck. With no refresh from
\* earlier calls under way, every step leaves the key's files as they are
\* and starts no refresh, and every call that reads the entry ends with the
\* deserialization failure and has spawned nothing: the state is absorbing.
C33_MalformedStuck ==
    [][\A k \in Subdirs :
          (Malformed(k) /\ Quiet(k))
             => /\ fs'[k] = fs[k] /\ dir'[k] = dir[k]
                /\ Quiet(k)'
                /\ \A i \in Calls :
                      (KeyOf(i) = k /\ load[i].pc = "idle" /\ load'[i].pc # "idle"
                         /\ load'[i].seen # "Io")
                         => /\ load'[i].pc = "done"
                            /\ load'[i].result = Res("Deserialize", <<>>)
                            /\ load'[i].spawns = 0
                            /\ child'[i] = InitChild]_vars

\* every call of the key has failed with the deserialization failure and
\* spawned nothing, and the malformed entry is as it was at the start
C33_Witness ==
    /\ Malformed("k1")
    /\ fs = fs0
    /\ \A i \in Calls :
          /\ KeyOf(i) = "k1" /\ load[i].pc = "done"
          /\ load[i].result = Res("Deserialize", <<>>)
          /\ load[i].spawns = 0 /\ child[i] = InitChild

\* the entry a refresh of call i writes when it takes its timestamp at t
EntryOf(i, t) ==
    File(Serialize([modified |-> t, checksum |-> load[i].checksum, data |-> ComputeValue(i)]))

\* C34: every entry written was written by a single refresh: an entry that
\* is not the one of the start is, whole, the record of one call whose
\* refresh renamed: the checksum argument of that call, the value its compute
\* returned, and a timestamp not later than the clock. The timestamp is
\* read in a step that follows the return of compute, and the rename puts
\* in place the record made of these three.
C34_SingleWriter ==
    /\ [](\A k \in Subdirs :
             Entry(k) # fs0[k][EntryPath]
                => \E i \in Calls, t \in 0..now :
                      /\ KeyOf(i) = k /\ child[i].renames = 1 /\ child[i].computes = 1
                      /\ dir[k] /\ Entry(k) = EntryOf(i, t))
    /\ [][\A i \in Calls :
             /\ child[i].pc = "create" /\ child'[i].pc = "write"
                   => /\ child[i].computes = 1 /\ child[i].data = ComputeValue(i)
                      /\ child'[i].modified = now
             /\ child'[i].renames # child[i].renames
                   => fs'[KeyOf(i)][EntryPath] = EntryOf(i, child[i].modified)]_vars

\* the refreshes of two calls with different checksums both wrote the
\* entry, which is the record of the second, taken after the start
C34_Witness ==
    \E i, j \in Calls :
        /\ KeyOf(i) = KeyOf(j) /\ load[i].checksum # load[j].checksum
        /\ child[i].outcome = "Updated" /\ child[j].outcome = "Updated"
        /\ \E t \in 1..now : Entry(KeyOf(j)) = EntryOf(j, t)

\* a read of the poll loop of call i succeeds and finds the entry file there
PollFinds(i) ==
    /\ load[i].pc = "sleep" /\ load'[i] # load[i]
    /\ load'[i].seen # "Io" /\ load'[i].there

\* C35 as stated: on the path of a missing entry, the first read of the poll
\* loop that finds an entry at the entry path ends the call with the data
\* of that entry, whatever the checksum and the age of the entry: no
\* checksum is compared and no age is computed.
C35_FirstEntry ==
    [][\A i \in Calls :
          PollFinds(i)
             => /\ load'[i].pc = "done"
                /\ ~load'[i].aged
                /\ \E j \in Calls, t \in 0..now :
                      /\ Entry(KeyOf(i)) = EntryOf(j, t)
                      /\ load'[i].result = Res("Ok", ComputeValue(j))]_vars

\* a call that found no entry was given, by its poll loop, the payload that
\* the refresh of another call wrote under a different checksum
C35_OtherChecksum ==
    \E i, j \in Calls :
        /\ i # j /\ load[i].checksum # load[j].checksum
        /\ MissingPath(i) /\ load[i].slept > 0
        /\ load[i].result = Res("Ok", ComputeValue(j))

\* build took the derived default path: no directory was set and Alfred
\* names no cache directory, and the home directory is known
DerivedUsed ==
    /\ built.done /\ ~builder.directory.some
    /\ ~IsSet("alfred_workflow_cache")
    /\ env.home.some

\* C36: when the derived default path is used, the bundle id in it is the
\* one of the environment whenever the environment has one, whether or not
\* the builder has one too; the bundle id of the builder is used only when
\* the environment has none.
C36_EnvBundleFirst ==
    DerivedUsed =>
        /\ IsSet("alfred_workflow_bundleid")
              => /\ built.ok
                 /\ built.directory
                       = env.home.val \o <<AlfredData, env.vars["alfred_workflow_bundleid"].val>>
        /\ (~IsSet("alfred_workflow_bundleid") /\ builder.bundle_id.some)
              => /\ built.ok
                 /\ built.directory = env.home.val \o <<AlfredData, builder.bundle_id.val>>
        /\ (built.ok /\ builder.bundle_id.some
              /\ built.directory = env.home.val \o <<AlfredData, builder.bundle_id.val>>)
              => ~IsSet("alfred_workflow_bundleid")

\* the environment and the builder both had a bundle id, and the path built
\* ends with the one of the environment
C36_Witness ==
    /\ DerivedUsed /\ built.ok
    /\ builder.bundle_id = Some("b")
    /\ env.vars["alfred_workflow_bundleid"] = Str("e")
    /\ built.directory = <<"home", AlfredData, "e">>

=============================================================================
